---- MODULE Spec2Model ----
(***************************************************************************)
(* RiveFileService (libs/rive-angular): a reference-counted cache of       *)
(* RiveFile handles with deduplication of concurrent loads.                *)
(*                                                                         *)
(* The service's three public methods run to completion on the single JS   *)
(* thread, so each is one action.  The only suspension point is between    *)
(* file.init() and the Load / LoadError event of that file; each event     *)
(* handler is one action.  A RiveFile delivers at most one of Load and     *)
(* LoadError, at most once.                                                *)
(***************************************************************************)
EXTENDS Integers, Sequences, FiniteSets, TLC

\* ------------------------------------------------------------------ bounds
MaxFiles == 2      \* number of loadFile misses (RiveFile constructor calls)
MaxHits == 1       \* loadFile cache hits counted on one cache entry
MaxJoin == 1       \* loadFile calls joining one pending load
MaxPendRel == 1    \* releaseFile calls counted while one load is pending
MaxHeld == 2       \* loadFile calls of one key not yet released (balanced use)

\* ------------------------------------------------------------------ inputs
NoValue == "<undefined>"                \* an omitted src
NoBuffer == 0                           \* an omitted buffer
Buffers == {1, 2}                       \* ArrayBuffer object identities
SrcValues == {NoValue, "", "a.riv"}
ParamsSet == [src : SrcValues, buffer : {NoBuffer} \cup Buffers]
\* the parameters the callers pass: one per kind of key, and every buffer
CallParams ==
  {[src |-> "a.riv", buffer |-> NoBuffer], [src |-> NoValue, buffer |-> NoBuffer]}
    \cup {[src |-> NoValue, buffer |-> b] : b \in Buffers}
ThrowPoints == {"none", "ctor", "init"} \* where `new RiveFile` / init() throws

VARIABLES
  cache,            \* Map<string, CacheEntry>
  pendingLoads,     \* Map<string, PendingLoad>
  bufferIdCounter,  \* number
  bufferIds,        \* __riveBufferId of each buffer object (0: not set)
  signals,          \* the state signals created by loadFile, in order
  files,            \* the RiveFile of each loadRiveFile call, in order
  promises,         \* the promise of each loadRiveFile call, in order
  lastCall,         \* observer: the last public call and what it returned
  hist,             \* observer: per signal, the calls of its episode
  held              \* observer: per key, loadFile calls not yet released

\* one RiveCanvasComponent
VARIABLES
  platformId,       \* isPlatformBrowser(this.#platformId)
  inputs,           \* src, buffer, riveFile, shouldUseIntersectionObserver
  isInitialized,    \* private isInitialized
  rive,             \* #rive (0: null)
  riveInstance,     \* signal riveInstance (0: null)
  isLoaded,         \* signal isLoaded
  isPlaying,        \* signal isPlaying
  isPaused,         \* signal isPaused
  resizeObserver,   \* a ResizeObserver observes the canvas
  isPausedByIntersectionObserver,
  retestIntersectionTimeoutId,  \* "null", "armed", or "fired" (a stale id)
  rives,            \* the Rive instances constructed, in order
  effectPending,    \* the constructor's effect is scheduled to run
  viewInit,         \* ngAfterViewInit has run
  destroyed,        \* the onDestroy callback has run
  lastEvent         \* observer: the last step of the component

\* the ElementObserver singleton
VARIABLES
  elementsMap,      \* Map<Element, callback>
  observing,        \* the elements passed to observer.observe
  invoked           \* observer: per entry of the last onObserved, the callback invoked

serviceVars == <<cache, pendingLoads, bufferIdCounter, bufferIds, signals,
                 files, promises, lastCall, hist, held>>

canvasVars == <<platformId, inputs, isInitialized, rive, riveInstance,
                isLoaded, isPlaying, isPaused, resizeObserver,
                isPausedByIntersectionObserver, retestIntersectionTimeoutId,
                rives, effectPending, viewInit, destroyed, lastEvent>>

observerVars == <<elementsMap, observing, invoked>>

vars == <<serviceVars, canvasVars, observerVars>>

\* ---------------------------------------------------------- Map operations
EmptyMap == [k \in {} |-> 0]

Has(m, k) == k \in DOMAIN m

Put(m, k, v) == [x \in (DOMAIN m) \cup {k} |-> IF x = k THEN v ELSE m[x]]

Delete(m, k) == [x \in (DOMAIN m) \ {k} |-> m[x]]

\* --------------------------------------------------------------- getCacheKey
\* a getCacheKey that tests `params.src !== undefined`
TruthyDefined(s) == s # NoValue

\* `if (params.src)`: undefined and the empty string are falsy
Truthy(s) == s # NoValue /\ s # ""

\* a getCacheKey that uses the counter before incrementing it
BufferIdOfStale(b) == IF bufferIds[b] = 0 THEN bufferIdCounter ELSE bufferIds[b]

\* the id the buffer carries once getCacheKey has run on it
BufferIdOf(b) == IF bufferIds[b] = 0 THEN bufferIdCounter + 1 ELSE bufferIds[b]

getCacheKey(params) ==
  IF Truthy(params.src) THEN "src:" \o params.src
  ELSE IF params.buffer # NoBuffer
       THEN "buffer:" \o ToString(BufferIdOf(params.buffer))
       ELSE "unknown"

\* getCacheKey tags an untagged buffer and advances the counter
TagsBuffer(params) ==
  /\ ~Truthy(params.src)
  /\ params.buffer # NoBuffer
  /\ bufferIds[params.buffer] = 0

getCacheKeyEffect(params) ==
  IF TagsBuffer(params)
  THEN /\ bufferIdCounter' = bufferIdCounter + 1
       /\ bufferIds' = [bufferIds EXCEPT ![params.buffer] = bufferIdCounter + 1]
  ELSE UNCHANGED <<bufferIdCounter, bufferIds>>

\* --------------------------------------------------------------------- Init
NoCall == [op |-> "none", kind |-> "none", ret |-> 0,
           cleaned |-> 0, thrown |-> 0, threw |-> FALSE]

\* the service after construction
ServiceInit ==
  /\ cache = EmptyMap
  /\ pendingLoads = EmptyMap
  /\ bufferIdCounter = 0
  /\ bufferIds = [b \in Buffers |-> 0]
  /\ signals = <<>>
  /\ files = <<>>
  /\ promises = <<>>
  /\ lastCall = NoCall
  /\ hist = <<>>
  /\ held = EmptyMap

\* no event of the component yet
NoEvent ==
  [op |-> "none", emitted |-> "none", value |-> "none", threw |-> FALSE]

\* the inputs that are not set: input<string>(), input<ArrayBuffer>(),
\* input<RiveFile>(), and shouldUseIntersectionObserver as given
NoInputs(useObserver) ==
  [src |-> NoValue, buffer |-> NoBuffer, riveFile |-> 0,
   shouldUseIntersectionObserver |-> useObserver]

\* the component after its constructor, on a browser or not
CanvasInit(browser, useObserver) ==
  /\ platformId = browser
  /\ inputs = NoInputs(useObserver)
  /\ isInitialized = FALSE
  /\ rive = 0
  /\ riveInstance = 0
  /\ isLoaded = FALSE
  /\ isPlaying = FALSE
  /\ isPaused = FALSE
  /\ resizeObserver = FALSE
  /\ isPausedByIntersectionObserver = FALSE
  /\ retestIntersectionTimeoutId = "null"
  /\ rives = <<>>
  /\ effectPending = TRUE
  /\ viewInit = FALSE
  /\ destroyed = FALSE
  /\ lastEvent = NoEvent

\* the ElementObserver after its constructor
ObserverInit ==
  /\ elementsMap = EmptyMap
  /\ observing = {}
  /\ invoked = <<>>

Init ==
  /\ ServiceInit
  /\ CanvasInit(TRUE, TRUE)
  /\ ObserverInit

\* ------------------------------------------------------------------ loadFile
\* a loadFile that never finds the cached entry
IsCachedNever(key) == FALSE

\* `if (cached)`
IsCached(key) == Has(cache, key)

\* a cache hit that does not count the caller
HitEntryUncounted(entry) == entry

\* `cached.refCount++`
HitEntry(entry) == [entry EXCEPT !.refCount = @ + 1]

\* a loadFile that never finds the pending load
IsPendingNever(key) == FALSE

\* `if (pending)`
IsPending(key) == Has(pendingLoads, key)

\* a miss whose signal starts with the status 'idle' of FileStatus
LoadingStateIdle == [riveFile |-> 0, status |-> "idle"]

\* `signal<RiveFileState>({ riveFile: null, status: 'loading' })`
LoadingState == [riveFile |-> 0, status |-> "loading"]

\* the state set by the LoadError handler and by the catch branch
FailedState == [riveFile |-> 0, status |-> "failed"]

\* a Load handler that sets the file and leaves the status as it was
SuccessStateLoading(f) == [riveFile |-> f, status |-> "loading"]

\* a Load handler that sets the status and leaves the file null
SuccessStateNoFile(f) == [riveFile |-> 0, status |-> "success"]

\* the state set by the Load handler of file f
SuccessState(f) == [riveFile |-> f, status |-> "success"]

\* a loadRiveFile that never calls init()
NewFileNoInit(key, throwAt) ==
  [cacheKey |-> key,
   constructed |-> throwAt # "ctor",
   inits |-> 0,
   handlers |-> throwAt = "none",
   fired |-> "none",
   getInstances |-> 0,
   cleanups |-> 0]

\* the RiveFile left behind by `new RiveFile(params); file.init(); file.on(..)`
\* when the constructor or init() throws at throwAt
NewFile(key, throwAt) ==
  [cacheKey |-> key,
   constructed |-> throwAt # "ctor",
   inits |-> IF throwAt = "ctor" THEN 0 ELSE 1,
   handlers |-> throwAt = "none",
   fired |-> "none",
   getInstances |-> 0,
   cleanups |-> 0]

\* the catch branch of loadRiveFile: state set and promise settled
CatchOutcome == [state |-> FailedState, promise |-> "fulfilled"]

\* loadRiveFile up to its return: the state of the signal and of the promise
loadRiveFile(throwAt) ==
  IF throwAt = "none"
  THEN [state |-> LoadingState, promise |-> "pending"]
  ELSE CatchOutcome

\* a miss that does not register the pending load
PendingAfterMissUnregistered(key, e, throwAt) == pendingLoads

\* the in-flight table when loadFile returns from a miss: the catch branch's
\* delete runs inside loadRiveFile, before `pendingLoads.set`
PendingAfterMiss(key, e, throwAt) ==
  LET afterLoad == IF throwAt = "none" THEN pendingLoads
                   ELSE Delete(pendingLoads, key)
  IN Put(afterLoad, key, [stateSignal |-> e, promise |-> e])

\* which branch of loadFile a call with this key takes
loadFileBranch(key) ==
  IF IsCached(key) THEN "hit" ELSE IF IsPending(key) THEN "join" ELSE "miss"

\* a loadFile whose pending branch returns a signal of its own
loadFileReturnFresh(key) ==
  IF IsCached(key) THEN cache[key].state ELSE Len(signals) + 1

\* the signal loadFile returns (signals are numbered in creation order)
loadFileReturn(key) ==
  IF IsCached(key) THEN cache[key].state
  ELSE IF IsPending(key) THEN pendingLoads[key].stateSignal
  ELSE Len(signals) + 1

LoadFileHit(key) ==
  /\ IsCached(key)
  /\ cache' = Put(cache, key, HitEntry(cache[key]))
  /\ UNCHANGED <<pendingLoads, signals, files, promises>>

LoadFileJoin(key) ==
  /\ ~IsCached(key)
  /\ IsPending(key)
  /\ UNCHANGED <<cache, pendingLoads, signals, files, promises>>

LoadFileMiss(key, throwAt) ==
  LET e == Len(signals) + 1
      out == loadRiveFile(throwAt)
  IN /\ ~IsCached(key)
     /\ ~IsPending(key)
     /\ Len(signals) < MaxFiles
     /\ signals' = Append(signals, out.state)
     /\ files' = Append(files, NewFile(key, throwAt))
     /\ promises' = Append(promises, out.promise)
     /\ pendingLoads' = PendingAfterMiss(key, e, throwAt)
     /\ UNCHANGED cache

LoadFile(params, throwAt) ==
  LET key == getCacheKey(params)
  IN /\ getCacheKeyEffect(params)
     /\ UNCHANGED <<canvasVars, observerVars>>
     /\ \/ LoadFileHit(key) /\ throwAt = "none"
        \/ LoadFileJoin(key) /\ throwAt = "none"
        \/ LoadFileMiss(key, throwAt)

\* --------------------------------------------------------------- releaseFile
\* `cached.refCount--; if (cached.refCount <= 0)`
\* a releaseFile that tears down only below zero
ReleaseTearsDownLate(entry) == entry.refCount - 1 < 0

ReleaseTearsDown(entry) == entry.refCount - 1 <= 0

\* a teardown that never calls file.cleanup()
CleanedUpNone(fs) == files

\* file.cleanup() has been called on each file of fs
CleanedUp(fs) ==
  [f \in DOMAIN files |->
     IF f \in fs THEN [files[f] EXCEPT !.cleanups = @ + 1] ELSE files[f]]

\* a releaseFile whose cleanup() call is not wrapped in try/catch
ReleaseCatchesNothing == FALSE

\* `try { cached.file.cleanup(); } catch (error) { console.warn(...) }`
ReleaseCatches == TRUE

\* a releaseFile that leaves the entry it tore down in the cache
ReleaseDeletedKept(key) ==
  Put(cache, key, [cache[key] EXCEPT !.refCount = @ - 1])

\* `this.cache.delete(cacheKey)`
ReleaseDeleted(key) == Delete(cache, key)

\* which branch of releaseFile a call with this key takes
releaseFileBranch(key) ==
  IF ~Has(cache, key) THEN "noop"
  ELSE IF ReleaseTearsDown(cache[key]) THEN "teardown" ELSE "decrement"

\* the error of cleanup() leaves releaseFile: nothing after the throw runs
ReleaseThrows(key, cleanupThrows) ==
  /\ releaseFileBranch(key) = "teardown"
  /\ cleanupThrows
  /\ ~ReleaseCatches

\* a releaseFile that also drops the pending load of the key
ReleaseFileCancels(params, cleanupThrows) ==
  LET key == getCacheKey(params)
      branch == releaseFileBranch(key)
  IN /\ getCacheKeyEffect(params)
     /\ UNCHANGED <<canvasVars, observerVars>>
     /\ cleanupThrows => branch = "teardown"
     /\ pendingLoads' = Delete(pendingLoads, key)
     /\ UNCHANGED <<signals, promises>>
     /\ IF branch = "teardown"
        THEN /\ files' = CleanedUp({cache[key].file})
             /\ cache' = ReleaseDeleted(key)
        ELSE IF branch = "decrement"
        THEN /\ cache' = Put(cache, key, [cache[key] EXCEPT !.refCount = @ - 1])
             /\ UNCHANGED files
        ELSE UNCHANGED <<cache, files>>

\* cleanupThrows: the cleanup() of the entry's file throws
ReleaseFile(params, cleanupThrows) ==
  LET key == getCacheKey(params)
      branch == releaseFileBranch(key)
  IN /\ getCacheKeyEffect(params)
     /\ UNCHANGED <<canvasVars, observerVars>>
     /\ cleanupThrows => branch = "teardown"
     /\ UNCHANGED <<pendingLoads, signals, promises>>
     /\ IF branch = "teardown"
        THEN /\ files' = CleanedUp({cache[key].file})
             /\ cache' = IF ReleaseThrows(key, cleanupThrows)
                         THEN Put(cache, key,
                                  [cache[key] EXCEPT !.refCount = @ - 1])
                         ELSE ReleaseDeleted(key)
        ELSE IF branch = "decrement"
        THEN /\ cache' = Put(cache, key, [cache[key] EXCEPT !.refCount = @ - 1])
             /\ UNCHANGED files
        ELSE UNCHANGED <<cache, files>>

\* ---------------------------------------------------------------- clearCache
\* a clearCache whose cleanup() calls are not wrapped in try/catch
ClearCatchesNothing == FALSE

\* `try { entry.file.cleanup(); } catch (error) { console.warn(...) }`
ClearCatches == TRUE

\* a clearCache that leaves the entries in the cache
ClearedCacheKept == cache

\* `this.cache.clear()`
ClearedCache == EmptyMap

\* the error of a cleanup() leaves clearCache: the forEach stops there
ClearThrows(throwing) == throwing # {} /\ ~ClearCatches

\* a clearCache that clears the pending loads as well
ClearCacheAll(throwing) ==
  /\ UNCHANGED <<canvasVars, observerVars>>
  /\ files' = CleanedUp({cache[k].file : k \in DOMAIN cache})
  /\ cache' = ClearedCache
  /\ pendingLoads' = EmptyMap
  /\ UNCHANGED <<bufferIdCounter, bufferIds, signals, promises>>

\* a clearCache that also cleans up the files of the pending loads
ClearCachePendingToo(throwing) ==
  /\ UNCHANGED <<canvasVars, observerVars>>
  /\ files' = CleanedUp({cache[k].file : k \in DOMAIN cache}
                          \cup {pendingLoads[k].promise : k \in DOMAIN pendingLoads})
  /\ cache' = ClearedCache
  /\ UNCHANGED <<pendingLoads, bufferIdCounter, bufferIds, signals, promises>>

\* throwing: the cached keys whose file.cleanup() throws.  When the error
\* leaves the call, the entries the forEach had reached are one throwing
\* entry and any of the others before it, and `cache.clear()` is not reached.
ClearCache(throwing) ==
  /\ UNCHANGED <<canvasVars, observerVars>>
  /\ IF ClearThrows(throwing)
     THEN \E first \in throwing, before \in SUBSET (DOMAIN cache \ throwing) :
            /\ files' = CleanedUp({cache[k].file : k \in before \cup {first}})
            /\ cache' = cache
     ELSE /\ files' = CleanedUp({cache[k].file : k \in DOMAIN cache})
          /\ cache' = ClearedCache
  /\ UNCHANGED <<pendingLoads, bufferIdCounter, bufferIds, signals, promises>>

\* ------------------------------------------------- the handlers of one file
\* a Load handler that counts one caller more than the miss
LoadCacheTwo(key, f) ==
  Put(cache, key, [file |-> f, state |-> f, refCount |-> 2])

\* `this.cache.set(cacheKey, { file, state, refCount: 1 })`
LoadCache(key, f) ==
  Put(cache, key, [file |-> f, state |-> f, refCount |-> 1])

\* a Load handler that leaves the key in pendingLoads
LoadPendingKept(key) == pendingLoads

\* a Load handler that clears the pending loads of every key
LoadPendingCleared(key) == EmptyMap

\* `this.pendingLoads.delete(cacheKey)` in the Load handler
LoadPending(key) == Delete(pendingLoads, key)

\* a LoadError handler that leaves the key in pendingLoads
LoadErrorPendingKept(key) == pendingLoads

\* `this.pendingLoads.delete(cacheKey)` in the LoadError handler
LoadErrorPending(key) == Delete(pendingLoads, key)

\* a LoadError handler that rejects the promise
LoadErrorRejects == "rejected"

\* `resolve()` in the LoadError handler
LoadErrorSettle == "fulfilled"

\* the handlers of file f are registered and the file has not settled
CanFire(f) ==
  /\ f \in DOMAIN files
  /\ files[f].handlers
  /\ files[f].fired = "none"

OnLoad(f) ==
  /\ UNCHANGED <<canvasVars, observerVars>>
  /\ CanFire(f)
  /\ files' = [files EXCEPT ![f].fired = "load", ![f].getInstances = @ + 1]
  /\ signals' = [signals EXCEPT ![f] = SuccessState(f)]
  /\ cache' = LoadCache(files[f].cacheKey, f)
  /\ pendingLoads' = LoadPending(files[f].cacheKey)
  /\ promises' = [promises EXCEPT ![f] = "fulfilled"]
  /\ UNCHANGED <<bufferIdCounter, bufferIds>>

OnLoadError(f) ==
  /\ UNCHANGED <<canvasVars, observerVars>>
  /\ CanFire(f)
  /\ files' = [files EXCEPT ![f].fired = "loaderror"]
  /\ signals' = [signals EXCEPT ![f] = FailedState]
  /\ pendingLoads' = LoadErrorPending(files[f].cacheKey)
  /\ promises' = [promises EXCEPT ![f] = LoadErrorSettle]
  /\ UNCHANGED <<cache, bufferIdCounter, bufferIds>>

\* ------------------------------------- the operations as functions of state
\* the fields of the service and the objects it has created, as one value
Service ==
  [cache |-> cache, pendingLoads |-> pendingLoads,
   bufferIdCounter |-> bufferIdCounter, bufferIds |-> bufferIds,
   signals |-> signals, files |-> files, promises |-> promises]

\* getCacheKey tags the buffer in state S
TagsIn(S, params) ==
  /\ ~Truthy(params.src)
  /\ params.buffer # NoBuffer
  /\ S.bufferIds[params.buffer] = 0

\* the key getCacheKey returns in state S
KeyIn(S, params) ==
  IF Truthy(params.src) THEN "src:" \o params.src
  ELSE IF params.buffer # NoBuffer
       THEN "buffer:" \o ToString(IF TagsIn(S, params)
                                  THEN S.bufferIdCounter + 1
                                  ELSE S.bufferIds[params.buffer])
       ELSE "unknown"

\* state S after getCacheKey
Tagged(S, params) ==
  IF TagsIn(S, params)
  THEN [S EXCEPT !.bufferIdCounter = @ + 1,
                 !.bufferIds[params.buffer] = S.bufferIdCounter + 1]
  ELSE S

\* state S after loadFile(params)
LoadFileIn(S, params, throwAt) ==
  LET key == KeyIn(S, params)
      T == Tagged(S, params)
      e == Len(S.signals) + 1
      out == loadRiveFile(throwAt)
  IN IF Has(S.cache, key)
     THEN [T EXCEPT !.cache[key] = HitEntry(@)]
     ELSE IF Has(S.pendingLoads, key)
     THEN T
     ELSE [T EXCEPT
             !.signals = Append(@, out.state),
             !.files = Append(@, NewFile(key, throwAt)),
             !.promises = Append(@, out.promise),
             !.pendingLoads =
                Put(IF throwAt = "none" THEN @ ELSE Delete(@, key),
                    key, [stateSignal |-> e, promise |-> e])]

\* state S after releaseFile(params)
ReleaseFileIn(S, params) ==
  LET key == KeyIn(S, params)
      T == Tagged(S, params)
  IN IF ~Has(S.cache, key)
     THEN T
     ELSE IF ReleaseTearsDown(S.cache[key])
     THEN [T EXCEPT !.files[S.cache[key].file].cleanups = @ + 1,
                    !.cache = Delete(@, key)]
     ELSE [T EXCEPT !.cache[key].refCount = @ - 1]

\* state S after the Load handler of file f
OnLoadIn(S, f) ==
  [S EXCEPT !.files[f].fired = "load",
            !.files[f].getInstances = @ + 1,
            !.signals[f] = SuccessState(f),
            !.cache = Put(@, S.files[f].cacheKey,
                          [file |-> f, state |-> f, refCount |-> 1]),
            !.pendingLoads = Delete(@, S.files[f].cacheKey),
            !.promises[f] = "fulfilled"]

\* state S after the LoadError handler of file f
OnLoadErrorIn(S, f) ==
  [S EXCEPT !.files[f].fired = "loaderror",
            !.signals[f] = FailedState,
            !.pendingLoads = Delete(@, S.files[f].cacheKey),
            !.promises[f] = LoadErrorSettle]

\* the params field of an operation that takes none
NoParams == [src |-> NoValue, buffer |-> NoBuffer]

\* the operations that can run in state S: a loadFile or releaseFile call
\* (the constructor and init() run, and can throw, on a miss only), and the
\* Load or LoadError of a file that has not settled
OpsIn(S) ==
  {o \in [op : {"loadFile"}, params : CallParams, throwAt : ThrowPoints, f : {0}] :
     o.throwAt = "none" \/ (/\ ~Has(S.cache, KeyIn(S, o.params))
                             /\ ~Has(S.pendingLoads, KeyIn(S, o.params)))}
  \cup [op : {"releaseFile"}, params : CallParams, throwAt : {"none"}, f : {0}]
  \cup {o \in [op : {"Load", "LoadError"}, params : {NoParams}, throwAt : {"none"},
               f : DOMAIN S.files] :
          S.files[o.f].handlers /\ S.files[o.f].fired = "none"}

\* the key operation o acts on in state S
OpKey(S, o) ==
  IF o.op \in {"loadFile", "releaseFile"}
  THEN KeyIn(S, o.params)
  ELSE S.files[o.f].cacheKey

\* state S after operation o
Apply(S, o) ==
  CASE o.op = "loadFile" -> LoadFileIn(S, o.params, o.throwAt)
    [] o.op = "releaseFile" -> ReleaseFileIn(S, o.params)
    [] o.op = "Load" -> OnLoadIn(S, o.f)
    [] o.op = "LoadError" -> OnLoadErrorIn(S, o.f)

\* ---------------------------------------------------------------- observers
\* the signal of the episode a key is in (0: the key is absent)
EpisodeOf(key) ==
  IF Has(cache, key) THEN cache[key].state
  ELSE IF Has(pendingLoads, key) THEN pendingLoads[key].stateSignal
  ELSE 0

\* lastCall: what the caller of the last public method saw.  ret: the signal
\* loadFile returned; for releaseFile, the signal of the episode the key was
\* in (0: absent).  cleaned, thrown: the cleanup() calls the call made and
\* how many of them threw.  threw: an error left the call.
SawLoadFile(key) ==
  lastCall' = [op |-> "loadFile", kind |-> loadFileBranch(key),
               ret |-> loadFileReturn(key),
               cleaned |-> 0, thrown |-> 0, threw |-> FALSE]

SawReleaseFile(key, cleanupThrows) ==
  lastCall' = [op |-> "releaseFile", kind |-> releaseFileBranch(key),
               ret |-> EpisodeOf(key),
               cleaned |-> IF releaseFileBranch(key) = "teardown" THEN 1 ELSE 0,
               thrown |-> IF cleanupThrows THEN 1 ELSE 0,
               threw |-> ReleaseThrows(key, cleanupThrows)]

SawClearCache(throwing) ==
  lastCall' = [op |-> "clearCache", kind |-> "clear", ret |-> 0,
               cleaned |-> Cardinality(DOMAIN cache),
               thrown |-> Cardinality(throwing),
               threw |-> ClearThrows(throwing)]

\* hist[e]: the calls made for the key of signal e during its episode, from
\* the miss that created the signal until the key is absent again
NoHist == [joins |-> 0, hits |-> 0, relsPending |-> 0, relsCached |-> 0,
           ended |-> "no"]

Ended(how) == [NoHist EXCEPT !.ended = how]

HistLoadFile(key) ==
  LET e == EpisodeOf(key)
      branch == loadFileBranch(key)
  IN IF branch = "hit"
     THEN /\ hist[e].hits < MaxHits
          /\ hist' = [hist EXCEPT ![e].hits = @ + 1]
     ELSE IF branch = "join"
     THEN /\ hist[e].joins < MaxJoin
          /\ hist' = [hist EXCEPT ![e].joins = @ + 1]
     ELSE hist' = Append(hist, NoHist)

HistReleaseFile(key) ==
  LET e == EpisodeOf(key)
      branch == releaseFileBranch(key)
  IN IF branch = "teardown"
     THEN hist' = [hist EXCEPT ![e] = Ended("release")]
     ELSE IF branch = "decrement"
     THEN hist' = [hist EXCEPT ![e].relsCached = @ + 1]
     ELSE IF e # 0
     THEN /\ hist[e].relsPending < MaxPendRel
          /\ hist' = [hist EXCEPT ![e].relsPending = @ + 1]
     ELSE UNCHANGED hist

HistClearCache ==
  hist' = [e \in DOMAIN hist |->
             IF \E k \in DOMAIN cache : cache[k].state = e
             THEN Ended("clear") ELSE hist[e]]

HistOnLoadError(f) == hist' = [hist EXCEPT ![f] = Ended("loaderror")]

\* the same, counting only what releaseFile's count is said to count: the
\* cache hits on an entry and the releases of it
RefLoadFile(key) ==
  LET e == EpisodeOf(key)
      branch == loadFileBranch(key)
  IN IF branch = "hit"
     THEN /\ hist[e].hits < MaxHits
          /\ hist' = [hist EXCEPT ![e].hits = @ + 1]
     ELSE IF branch = "join"
     THEN UNCHANGED hist
     ELSE hist' = Append(hist, NoHist)

RefReleaseFile(key) ==
  LET e == EpisodeOf(key)
      branch == releaseFileBranch(key)
  IN IF branch = "teardown"
     THEN hist' = [hist EXCEPT ![e].relsCached = @ + 1, ![e].ended = "release"]
     ELSE IF branch = "decrement"
     THEN hist' = [hist EXCEPT ![e].relsCached = @ + 1]
     ELSE UNCHANGED hist

RefClearCache ==
  hist' = [e \in DOMAIN hist |->
             IF \E k \in DOMAIN cache : cache[k].state = e
             THEN Ended("clear") ELSE hist[e]]

\* held[key]: loadFile calls with this key whose caller has not released yet
Held(k) == IF Has(held, k) THEN held[k] ELSE 0

HeldPlus(k) == Put(held, k, Held(k) + 1)

HeldMinus(k) ==
  IF Held(k) <= 1 THEN Delete(held, k) ELSE Put(held, k, Held(k) - 1)

\* ------------------------------------------------------------ specifications
\* Spec: every caller may load, release and clear at any time; lastCall
\* records what each call returned
HitAllowed(key) == IsCached(key) => cache[key].refCount <= MaxHits

CallLoadFile(params, throwAt) ==
  /\ HitAllowed(getCacheKey(params))
  /\ LoadFile(params, throwAt)
  /\ SawLoadFile(getCacheKey(params))
  /\ UNCHANGED <<hist, held>>

CallReleaseFile(params, cleanupThrows) ==
  /\ ReleaseFile(params, cleanupThrows)
  /\ SawReleaseFile(getCacheKey(params), cleanupThrows)
  /\ UNCHANGED <<hist, held>>

CallClearCache(throwing) ==
  ClearCache(throwing) /\ SawClearCache(throwing) /\ UNCHANGED <<hist, held>>

FireLoad(f) == OnLoad(f) /\ UNCHANGED <<lastCall, hist, held>>

FireLoadError(f) == OnLoadError(f) /\ UNCHANGED <<lastCall, hist, held>>

Next ==
  \/ \E params \in CallParams, throwAt \in ThrowPoints :
        CallLoadFile(params, throwAt)
  \/ \E params \in CallParams, cleanupThrows \in BOOLEAN :
        CallReleaseFile(params, cleanupThrows)
  \/ \E throwing \in SUBSET (DOMAIN cache) : CallClearCache(throwing)
  \/ \E f \in 1..MaxFiles : FireLoad(f)
  \/ \E f \in 1..MaxFiles : FireLoadError(f)

Spec == Init /\ [][Next]_vars

\* SpecHist: the same program, observed per episode
HistCallLoadFile(params, throwAt) ==
  /\ LoadFile(params, throwAt)
  /\ HistLoadFile(getCacheKey(params))
  /\ UNCHANGED <<lastCall, held>>

HistCallReleaseFile(params, cleanupThrows) ==
  /\ ReleaseFile(params, cleanupThrows)
  /\ HistReleaseFile(getCacheKey(params))
  /\ UNCHANGED <<lastCall, held>>

HistCallClearCache(throwing) ==
  ClearCache(throwing) /\ HistClearCache /\ UNCHANGED <<lastCall, held>>

HistFireLoadError(f) ==
  OnLoadError(f) /\ HistOnLoadError(f) /\ UNCHANGED <<lastCall, held>>

NextHist ==
  \/ \E params \in CallParams, throwAt \in ThrowPoints :
        HistCallLoadFile(params, throwAt)
  \/ \E params \in CallParams, cleanupThrows \in BOOLEAN :
        HistCallReleaseFile(params, cleanupThrows)
  \/ \E throwing \in SUBSET (DOMAIN cache) : HistCallClearCache(throwing)
  \/ \E f \in 1..MaxFiles : FireLoad(f)
  \/ \E f \in 1..MaxFiles : HistFireLoadError(f)

SpecHist == Init /\ [][NextHist]_vars

\* SpecRef: the same program, observing the counted loads and the releases
RefCallLoadFile(params, throwAt) ==
  /\ LoadFile(params, throwAt)
  /\ RefLoadFile(getCacheKey(params))
  /\ UNCHANGED <<lastCall, held>>

RefCallReleaseFile(params, cleanupThrows) ==
  /\ ReleaseFile(params, cleanupThrows)
  /\ RefReleaseFile(getCacheKey(params))
  /\ UNCHANGED <<lastCall, held>>

RefCallClearCache(throwing) ==
  ClearCache(throwing) /\ RefClearCache /\ UNCHANGED <<lastCall, held>>

NextRef ==
  \/ \E params \in CallParams, throwAt \in ThrowPoints :
        RefCallLoadFile(params, throwAt)
  \/ \E params \in CallParams, cleanupThrows \in BOOLEAN :
        RefCallReleaseFile(params, cleanupThrows)
  \/ \E throwing \in SUBSET (DOMAIN cache) : RefCallClearCache(throwing)
  \/ \E f \in 1..MaxFiles : FireLoad(f)
  \/ \E f \in 1..MaxFiles : FireLoadError(f)

SpecRef == Init /\ [][NextRef]_vars

\* SpecParams: callers pass every combination of src and buffer; nothing
\* throws
AnyLoadFile(params) == CallLoadFile(params, "none")

AnyReleaseFile(params) == CallReleaseFile(params, FALSE)

NextParams ==
  \/ \E params \in ParamsSet : AnyLoadFile(params)
  \/ \E params \in ParamsSet : AnyReleaseFile(params)
  \/ \E f \in 1..MaxFiles : FireLoad(f)
  \/ \E f \in 1..MaxFiles : FireLoadError(f)

SpecParams == Init /\ [][NextParams]_vars

\* SpecCore: the same program with no observer
CoreLoadFile(params, throwAt) ==
  /\ HitAllowed(getCacheKey(params))
  /\ LoadFile(params, throwAt)
  /\ UNCHANGED <<lastCall, hist, held>>

CoreReleaseFile(params, cleanupThrows) ==
  ReleaseFile(params, cleanupThrows) /\ UNCHANGED <<lastCall, hist, held>>

CoreClearCache(throwing) ==
  ClearCache(throwing) /\ UNCHANGED <<lastCall, hist, held>>

NextCore ==
  \/ \E params \in CallParams, throwAt \in ThrowPoints :
        CoreLoadFile(params, throwAt)
  \/ \E params \in CallParams, cleanupThrows \in BOOLEAN :
        CoreReleaseFile(params, cleanupThrows)
  \/ \E throwing \in SUBSET (DOMAIN cache) : CoreClearCache(throwing)
  \/ \E f \in 1..MaxFiles : FireLoad(f)
  \/ \E f \in 1..MaxFiles : FireLoadError(f)

SpecCore == Init /\ [][NextCore]_vars

\* SpecBalanced: balanced use, as the README asks: a releaseFile is issued
\* only by a caller whose loadFile with the same parameters is not yet released
HolderLoadFile(params, throwAt) ==
  /\ Held(getCacheKey(params)) < MaxHeld
  /\ LoadFile(params, throwAt)
  /\ held' = HeldPlus(getCacheKey(params))
  /\ UNCHANGED <<lastCall, hist>>

HolderReleaseFile(params, cleanupThrows) ==
  /\ Held(getCacheKey(params)) > 0
  /\ ReleaseFile(params, cleanupThrows)
  /\ held' = HeldMinus(getCacheKey(params))
  /\ UNCHANGED <<lastCall, hist>>

NextBalanced ==
  \/ \E params \in CallParams, throwAt \in ThrowPoints :
        HolderLoadFile(params, throwAt)
  \/ \E params \in CallParams, cleanupThrows \in BOOLEAN :
        HolderReleaseFile(params, cleanupThrows)
  \/ \E f \in 1..MaxFiles : FireLoad(f)
  \/ \E f \in 1..MaxFiles : FireLoadError(f)

SpecBalanced == Init /\ [][NextBalanced]_vars

TypeOK ==
  /\ \A k \in DOMAIN cache : cache[k].refCount \in 1..(MaxHits + 1)
  /\ Len(signals) = Len(files) /\ Len(files) = Len(promises)
  /\ Len(signals) <= MaxFiles

\* ==================================================================== claims
\* the load of signal e has not settled
Unsettled(e) == signals[e].status = "loading"

\* C1 (dedup): while the load of a key is pending and not settled, every
\* loadFile call with that key constructs and initialises nothing and returns
\* the pending signal, whose key has exactly one constructed, initialised file;
\* when that file's Load (LoadError) fires, that one signal turns success
\* (failed).
DedupState ==
  \A k \in DOMAIN pendingLoads :
    LET e == pendingLoads[k].stateSignal
    IN Unsettled(e) =>
         /\ files[e].cacheKey = k
         /\ files[e].constructed /\ files[e].inits = 1
         /\ \A f \in DOMAIN files :
              (files[f].cacheKey = k /\ CanFire(f)) => f = e

DedupStep ==
  /\ \A params \in CallParams, throwAt \in ThrowPoints :
       LET key == getCacheKey(params)
       IN (/\ Has(pendingLoads, key)
           /\ Unsettled(pendingLoads[key].stateSignal)
           /\ lastCall'.op = "loadFile"
           /\ CallLoadFile(params, throwAt))
          => /\ files' = files
             /\ signals' = signals
             /\ lastCall'.ret = pendingLoads[key].stateSignal
  /\ \A f \in 1..MaxFiles :
       /\ FireLoad(f) =>
            /\ pendingLoads[files[f].cacheKey].stateSignal = f
            /\ signals'[f].status = "success"
       /\ FireLoadError(f) =>
            /\ pendingLoads[files[f].cacheKey].stateSignal = f
            /\ signals'[f].status = "failed"

DedupLoads == []DedupState /\ [][DedupStep]_vars

\* a loadFile call joined a pending load, which then completed
DedupWitness ==
  /\ lastCall.kind = "join"
  /\ signals[lastCall.ret].status = "success"

\* C2 (ref counting): on a cached entry that counts N loadFile calls (the
\* miss and N-1 cache hits), refCount is N minus the releases made so far; a
\* releaseFile that is not the Nth invokes no cleanup and leaves the entry
\* cached, and the Nth invokes cleanup once on the entry's file, which was
\* never cleaned up before, and removes the entry.
RefCountState ==
  \A k \in DOMAIN cache :
    LET e == cache[k].state
    IN /\ cache[k].refCount = (1 + hist[e].hits) - hist[e].relsCached
       /\ files[cache[k].file].cleanups = 0

RefCountStep ==
  \A params \in CallParams, cleanupThrows \in BOOLEAN :
    LET key == getCacheKey(params)
    IN (Has(cache, key) /\ RefCallReleaseFile(params, cleanupThrows))
       => LET e == cache[key].state
              f == cache[key].file
              N == 1 + hist[e].hits
              nth == hist[e].relsCached + 1
          IN /\ nth <= N
             /\ nth < N => (files' = files /\ Has(cache', key))
             /\ nth = N => /\ ~Has(cache', key)
                           /\ files'[f].cleanups = 1
                           /\ \A g \in DOMAIN files :
                                g # f => files'[g] = files[g]

RefCounting == []RefCountState /\ [][RefCountStep]_vars

\* an entry counted two loadFile calls and its second release tore it down
RefCountingWitness ==
  \E e \in DOMAIN hist :
    /\ hist[e].ended = "release"
    /\ hist[e].hits = 1
    /\ hist[e].relsCached = 2
    /\ files[e].cleanups = 1
    /\ ~Has(cache, files[e].cacheKey)

\* C3 (scenario with a joiner): after loadFile(k), a second loadFile(k) while
\* the load is pending and one Load, both calls hold the one signal, which is
\* success; the first releaseFile(k) leaves the entry cached with refCount 1
\* and invokes no cleanup; the second invokes cleanup and removes the entry.
JoinerScenarioStep ==
  \A params \in CallParams, cleanupThrows \in BOOLEAN :
    LET key == getCacheKey(params)
        e == EpisodeOf(key)
    IN (/\ Has(cache, key)
        /\ hist[e].joins = 1 /\ hist[e].hits = 0 /\ hist[e].relsPending = 0
        /\ HistCallReleaseFile(params, cleanupThrows))
       => /\ signals[e].status = "success"
          /\ hist[e].relsCached = 0 =>
               /\ Has(cache', key)
               /\ cache'[key].refCount = 1
               /\ files' = files
          /\ hist[e].relsCached = 1 =>
               /\ ~Has(cache', key)
               /\ files'[cache[key].file].cleanups = 1

JoinerScenario == [][JoinerScenarioStep]_vars

\* C4 (synchronous construction failure): once loadFile has returned from a
\* miss whose constructor or init() threw, the signal is {null, failed}, no
\* cache entry exists for the key and no PendingLoad of that signal remains.
SyncFailureLeavesNothing ==
  \A e \in DOMAIN files :
    ~files[e].handlers =>
      /\ signals[e] = FailedState
      /\ ~Has(cache, files[e].cacheKey)
      /\ \A k \in DOMAIN pendingLoads : pendingLoads[k].stateSignal # e

\* C5 (cache hit): a loadFile call whose key has a cache entry returns the
\* entry's signal, which is the signal created by the miss that constructed
\* the entry's file, constructs nothing, and changes nothing except that
\* entry's refCount, which grows by exactly 1.
CacheHitStep ==
  \A params \in CallParams, throwAt \in ThrowPoints :
    LET key == getCacheKey(params)
    IN (/\ Has(cache, key)
        /\ lastCall'.op = "loadFile"
        /\ CallLoadFile(params, throwAt))
       => /\ lastCall'.ret = cache[key].state
          /\ cache[key].state = cache[key].file
          /\ files[cache[key].file].cacheKey = key
          /\ cache' = [cache EXCEPT ![key].refCount = cache[key].refCount + 1]
          /\ UNCHANGED <<pendingLoads, bufferIdCounter, bufferIds, signals,
                         files, promises>>

CacheHit == [][CacheHitStep]_vars

\* a loadFile call hit a cached entry, which now counts two callers
CacheHitWitness ==
  /\ lastCall.kind = "hit"
  /\ \E k \in DOMAIN cache :
       cache[k].state = lastCall.ret /\ cache[k].refCount = 2

\* C6: no key is in the cache and in pendingLoads at once.
PendingXorCached == \A k \in DOMAIN cache : ~Has(pendingLoads, k)

\* one key is cached while another key is pending
PendingXorCachedWitness ==
  \E k \in DOMAIN cache : \E j \in DOMAIN pendingLoads :
    j # k /\ Unsettled(pendingLoads[j].stateSignal)

\* C7 (ref count meaning): the refCount of a cache entry is the number of
\* loadFile calls that returned its signal (the miss, the joiners, the hits)
\* minus the number of releaseFile calls made for its key during the episode.
RefCountIsHolders ==
  \A k \in DOMAIN cache :
    LET e == cache[k].state
    IN cache[k].refCount =
         (1 + hist[e].joins + hist[e].hits)
           - (hist[e].relsPending + hist[e].relsCached)

\* C8 (balanced use never leaks): when every loadFile call has been followed
\* by its caller's releaseFile and no load is in flight, the cache is empty
\* and every file that loaded has been cleaned up.
Quiescent ==
  /\ held = EmptyMap
  /\ \A f \in DOMAIN files : ~CanFire(f)

BalancedUseNeverLeaks ==
  Quiescent =>
    /\ cache = EmptyMap
    /\ \A f \in DOMAIN files : files[f].fired = "load" => files[f].cleanups >= 1

\* C9 (load failure): the LoadError handler of a file sets its signal to
\* {null, failed}, removes its key from pendingLoads and creates no cache
\* entry; no cache entry ever holds a file whose LoadError fired.
LoadFailureState ==
  \A f \in DOMAIN files :
    files[f].fired = "loaderror" =>
      /\ signals[f] = [riveFile |-> 0, status |-> "failed"]
      /\ \A k \in DOMAIN cache : cache[k].file # f /\ cache[k].state # f

LoadFailureStep ==
  \A f \in 1..MaxFiles :
    FireLoadError(f) =>
      /\ signals'[f] = [riveFile |-> 0, status |-> "failed"]
      /\ ~Has(pendingLoads', files[f].cacheKey)
      /\ cache' = cache

LoadFailure == []LoadFailureState /\ [][LoadFailureStep]_vars

\* the LoadError of a file has fired while a loadFile caller held its signal
LoadFailureWitness ==
  \E f \in DOMAIN files :
    /\ files[f].fired = "loaderror"
    /\ ~Has(pendingLoads, files[f].cacheKey)

LastFileOf(key) ==
  LET fs == {f \in DOMAIN files : files[f].cacheKey = key}
  IN IF fs = {} THEN 0 ELSE CHOOSE f \in fs : \A g \in fs : g <= f

\* the last episode of the key ended by a teardown of this kind ("clear" or
\* "release") and no loadFile has constructed a file for the key since
TornDownBy(key, how) ==
  /\ LastFileOf(key) # 0
  /\ hist[LastFileOf(key)].ended = how

\* a key torn down this way is in neither map
AbsentAfter(how) ==
  \A params \in CallParams :
    LET key == getCacheKey(params)
    IN TornDownBy(key, how) => ~Has(cache, key) /\ ~Has(pendingLoads, key)

\* this step is a loadFile miss: one more file, constructed for the key, and
\* one more signal, which is the one returned and was held by nobody before
MissStep(key) ==
  /\ Len(files') = Len(files) + 1
  /\ files'[Len(files')].cacheKey = key
  /\ \A f \in DOMAIN files : files'[f] = files[f]
  /\ Len(signals') = Len(signals) + 1
  /\ \A e \in DOMAIN signals : signals'[e] = signals[e]
  /\ loadFileReturn(key) = Len(signals')
  /\ signals'[Len(signals')].riveFile = 0

\* the status a miss leaves in the returned signal
StatusAfterMiss(throwAt) == IF throwAt = "none" THEN "loading" ELSE "failed"

\* clearCache invokes cleanup() once on the file of every cached entry, which
\* was never cleaned up before, on no other file, and empties the cache
ClearStep ==
  \A throwing \in SUBSET (DOMAIN cache) :
    RefCallClearCache(throwing)
    => /\ cache' = EmptyMap
       /\ \A f \in DOMAIN files :
            IF \E k \in DOMAIN cache : cache[k].file = f
            THEN /\ files[f].cleanups = 0
                 /\ files'[f] = [files[f] EXCEPT !.cleanups = 1]
            ELSE files'[f] = files[f]

\* C11 as stated (full clear): clearCache invokes cleanup() exactly once on
\* every cached file and empties the cache, and the next loadFile for a key
\* that was cached is a miss that constructs a new file and returns a new
\* signal whose status is loading.
FullClearLoading ==
  /\ []AbsentAfter("clear")
  /\ [][/\ ClearStep
        /\ \A params \in CallParams :
             LET key == getCacheKey(params)
             IN TornDownBy(key, "clear") => \A throwAt \in ThrowPoints :
                RefCallLoadFile(params, throwAt)
                => /\ MissStep(key)
                   /\ signals'[Len(signals')].status = "loading"]_vars

\* C11 (full clear), amended: as above, but the new signal is loading when
\* neither the constructor nor init() throws, and failed when one of them does.
FullClear ==
  /\ []AbsentAfter("clear")
  /\ [][/\ ClearStep
        /\ \A params \in CallParams :
             LET key == getCacheKey(params)
             IN TornDownBy(key, "clear") => \A throwAt \in ThrowPoints :
                RefCallLoadFile(params, throwAt)
                => /\ MissStep(key)
                   /\ signals'[Len(signals')].status
                        = StatusAfterMiss(throwAt)]_vars

\* a key was cleared from the cache, then loaded again: its new file is
\* pending with a loading signal while the cleared file is cleaned up once
FullClearWitness ==
  \E e, f \in DOMAIN files :
    /\ e < f
    /\ files[e].cacheKey = files[f].cacheKey
    /\ hist[e].ended = "clear"
    /\ files[e].cleanups = 1
    /\ signals[f].status = "loading"
    /\ ~Has(cache, files[f].cacheKey)

\* the parameters whose key getCacheKey derives from the buffer
BufferParams == {p \in CallParams : ~Truthy(p.src) /\ p.buffer # NoBuffer}

\* "buffer:" followed by the id a buffer carries in this state
BufferKey(b) == "buffer:" \o ToString(bufferIds[b])

\* C12 (buffer identity): the ids of tagged buffers are pairwise different and
\* none is above the counter; a loadFile or releaseFile call with a buffer
\* leaves the buffer tagged, never changes a tag that was set and touches no
\* other buffer's tag; the call acts under "buffer:" + that tag, a key no
\* other buffer has: loadFile returns a signal whose file was constructed for
\* this key, and releaseFile addresses the episode of this key.
BufferIdentityState ==
  /\ \A b \in Buffers : bufferIds[b] <= bufferIdCounter
  /\ \A b1, b2 \in Buffers :
       (b1 # b2 /\ bufferIds[b1] # 0) => bufferIds[b1] # bufferIds[b2]

BufferIdentityStep ==
  \A params \in BufferParams :
    LET b == params.buffer
        keyAfter == "buffer:" \o ToString(bufferIds'[b])
    IN /\ \A throwAt \in ThrowPoints :
            (lastCall'.op = "loadFile" /\ CallLoadFile(params, throwAt))
            => /\ bufferIds'[b] # 0
               /\ bufferIds[b] # 0 => bufferIds'[b] = bufferIds[b]
               /\ \A b2 \in Buffers \ {b} :
                    /\ bufferIds'[b2] = bufferIds[b2]
                    /\ bufferIds[b2] # 0 => keyAfter # BufferKey(b2)
               /\ files'[lastCall'.ret].cacheKey = keyAfter
       /\ \A cleanupThrows \in BOOLEAN :
            (lastCall'.op = "releaseFile" /\ CallReleaseFile(params, cleanupThrows))
            => /\ bufferIds'[b] # 0
               /\ bufferIds[b] # 0 => bufferIds'[b] = bufferIds[b]
               /\ \A b2 \in Buffers \ {b} :
                    /\ bufferIds'[b2] = bufferIds[b2]
                    /\ bufferIds[b2] # 0 => keyAfter # BufferKey(b2)
               /\ lastCall'.ret = EpisodeOf(keyAfter)

BufferIdentity == []BufferIdentityState /\ [][BufferIdentityStep]_vars

\* two buffers were loaded, each has its own file and signal, and the last
\* call passed one of them again and got the signal of its first load
BufferIdentityWitness ==
  \E b1, b2 \in Buffers, f, g \in DOMAIN files :
    /\ b1 # b2 /\ f # g
    /\ bufferIds[b1] # 0 /\ bufferIds[b2] # 0
    /\ files[f].cacheKey = BufferKey(b1)
    /\ files[g].cacheKey = BufferKey(b2)
    /\ lastCall.op = "loadFile"
    /\ lastCall.kind \in {"join", "hit"}
    /\ lastCall.ret = f

\* C13 (release without an entry): a releaseFile whose key has no cache entry
\* returns normally, invokes no cleanup and leaves the cache, the pending
\* loads, every signal, every file and every promise as they were; no file is
\* ever cleaned up twice, however often it is released.
NoSecondTeardown == \A f \in DOMAIN files : files[f].cleanups <= 1

ReleaseNoopStep ==
  \A params \in CallParams, cleanupThrows \in BOOLEAN :
    (/\ ~Has(cache, getCacheKey(params))
     /\ lastCall'.op = "releaseFile"
     /\ CallReleaseFile(params, cleanupThrows))
    => /\ ~lastCall'.threw
       /\ lastCall'.cleaned = 0
       /\ UNCHANGED <<cache, pendingLoads, signals, files, promises>>

ReleaseNoop == []NoSecondTeardown /\ [][ReleaseNoopStep]_vars

\* a file was torn down by its last release, nothing is cached or pending,
\* and one more releaseFile found no entry
ReleaseNoopWitness ==
  /\ lastCall.op = "releaseFile"
  /\ lastCall.kind = "noop"
  /\ lastCall.ret = 0
  /\ cache = EmptyMap
  /\ pendingLoads = EmptyMap
  /\ \E f \in DOMAIN files : files[f].cleanups = 1

\* the last call was a releaseFile that found the key's load pending with
\* signal f
ReleasedWhilePending(f) ==
  /\ lastCall.op = "releaseFile"
  /\ lastCall.kind = "noop"
  /\ lastCall.ret = f

\* C14 (release while pending): a releaseFile whose key has a pending load
\* that is not settled returns normally and changes nothing: the pending load
\* stays registered, its signal stays loading, its file can still fire, and
\* cache, files and promises are as before.  The load then settles as any
\* other: Load sets the signal to success and creates the entry with
\* refCount 1, LoadError sets it to failed and creates no entry.
ReleasePendingStep ==
  /\ \A params \in CallParams, cleanupThrows \in BOOLEAN :
       LET key == getCacheKey(params)
       IN (/\ Has(pendingLoads, key)
           /\ Unsettled(pendingLoads[key].stateSignal)
           /\ lastCall'.op = "releaseFile"
           /\ CallReleaseFile(params, cleanupThrows))
          => /\ ~lastCall'.threw
             /\ Has(pendingLoads', key)
             /\ Unsettled(pendingLoads[key].stateSignal)'
             /\ CanFire(pendingLoads[key].promise)'
             /\ UNCHANGED <<cache, pendingLoads, signals, files, promises>>
  /\ \A f \in 1..MaxFiles :
       LET key == files[f].cacheKey
       IN /\ (ReleasedWhilePending(f) /\ FireLoad(f))
             => /\ signals'[f] = [riveFile |-> f, status |-> "success"]
                /\ ~Has(pendingLoads', key)
                /\ cache' = Put(cache, key,
                                [file |-> f, state |-> f, refCount |-> 1])
          /\ (ReleasedWhilePending(f) /\ FireLoadError(f))
             => /\ signals'[f] = [riveFile |-> 0, status |-> "failed"]
                /\ ~Has(pendingLoads', key)
                /\ cache' = cache

ReleasePending == [][ReleasePendingStep]_vars

\* a key was released while its load was pending, and the load then
\* completed into an entry with refCount 1
ReleasePendingWitness ==
  \E f \in DOMAIN files :
    /\ ReleasedWhilePending(f)
    /\ files[f].fired = "load"
    /\ Has(cache, files[f].cacheKey)
    /\ cache[files[f].cacheKey] = [file |-> f, state |-> f, refCount |-> 1]

\* C15 (clear while pending): clearCache leaves every pending load registered
\* and leaves its signal, its file and its promise as they were; when the Load
\* of a file that was pending during the last clearCache fires afterwards, its
\* signal becomes success, its key leaves the pending loads, and the cache
\* gains the entry of this file with refCount 1.
ClearPendingStep ==
  /\ \A throwing \in SUBSET (DOMAIN cache) :
       (lastCall'.op = "clearCache" /\ CallClearCache(throwing))
       => /\ UNCHANGED <<pendingLoads, signals, promises>>
          /\ \A k \in DOMAIN pendingLoads :
               files'[pendingLoads[k].promise] = files[pendingLoads[k].promise]
  /\ \A f \in 1..MaxFiles :
       (lastCall.op = "clearCache" /\ FireLoad(f))
       => LET key == files[f].cacheKey
          IN /\ signals'[f] = [riveFile |-> f, status |-> "success"]
             /\ ~Has(pendingLoads', key)
             /\ cache' = Put(cache, key,
                             [file |-> f, state |-> f, refCount |-> 1])

ClearPending == [][ClearPendingStep]_vars

\* clearCache tore down a cached file while another load was pending; that
\* load then completed and its entry is the only one in the cache
ClearPendingWitness ==
  \E f \in DOMAIN files :
    /\ lastCall.op = "clearCache"
    /\ lastCall.cleaned >= 1
    /\ files[f].fired = "load"
    /\ files[f].cleanups = 0
    /\ DOMAIN cache = {files[f].cacheKey}
    /\ cache[files[f].cacheKey] = [file |-> f, state |-> f, refCount |-> 1]

\* a releaseFile that finds refCount 1 invokes cleanup() on the entry's file,
\* removes the entry and leaves the key in neither map
ReleaseToZeroStep ==
  \A params \in CallParams, cleanupThrows \in BOOLEAN :
    LET key == getCacheKey(params)
    IN (/\ Has(cache, key)
        /\ cache[key].refCount = 1
        /\ RefCallReleaseFile(params, cleanupThrows))
       => /\ files'[cache[key].file].cleanups = 1
          /\ ~Has(cache', key)
          /\ ~Has(pendingLoads', key)
          /\ TornDownBy(key, "release")'

\* C16 as stated (release then reload): after the releaseFile that brought
\* refCount to zero and tore the file down the key is absent, and the next
\* loadFile for it is a miss that constructs a new file and returns a new
\* signal, not the one of the released episode, whose status is loading.
ReleaseReloadLoading ==
  /\ []AbsentAfter("release")
  /\ [][/\ ReleaseToZeroStep
        /\ \A params \in CallParams :
             LET key == getCacheKey(params)
             IN TornDownBy(key, "release") => \A throwAt \in ThrowPoints :
                RefCallLoadFile(params, throwAt)
                => /\ MissStep(key)
                   /\ loadFileReturn(key) # LastFileOf(key)
                   /\ signals'[Len(signals')].status = "loading"]_vars

\* C16 (release then reload), amended: as above, but the new signal is loading
\* when neither the constructor nor init() throws, and failed when one does.
ReleaseReload ==
  /\ []AbsentAfter("release")
  /\ [][/\ ReleaseToZeroStep
        /\ \A params \in CallParams :
             LET key == getCacheKey(params)
             IN TornDownBy(key, "release") => \A throwAt \in ThrowPoints :
                RefCallLoadFile(params, throwAt)
                => /\ MissStep(key)
                   /\ loadFileReturn(key) # LastFileOf(key)
                   /\ signals'[Len(signals')].status
                        = StatusAfterMiss(throwAt)]_vars

\* a key was released to zero, then loaded again: its new file is pending
\* with a loading signal, while the released file is cleaned up and its
\* signal still shows success
ReleaseReloadWitness ==
  \E e, f \in DOMAIN files :
    /\ e < f
    /\ files[e].cacheKey = files[f].cacheKey
    /\ hist[e].ended = "release"
    /\ files[e].cleanups = 1
    /\ signals[e].status = "success"
    /\ signals[f].status = "loading"
    /\ Has(pendingLoads, files[f].cacheKey)

\* C17 (teardown failure in releaseFile): when the cleanup() invoked by the
\* releaseFile that brings refCount to zero throws, the call still returns
\* normally and the entry is removed; nothing else changes.
ReleaseCleanupThrowsStep ==
  \A params \in CallParams :
    LET key == getCacheKey(params)
    IN (/\ Has(cache, key)
        /\ cache[key].refCount = 1
        /\ lastCall'.op = "releaseFile"
        /\ CallReleaseFile(params, TRUE))
       => /\ lastCall'.thrown = 1
          /\ ~lastCall'.threw
          /\ ~Has(cache', key)
          /\ \A k \in DOMAIN cache : k # key =>
               Has(cache', k) /\ cache'[k] = cache[k]
          /\ files'[cache[key].file].cleanups = 1
          /\ UNCHANGED <<pendingLoads, signals, promises>>

ReleaseCleanupThrows == [][ReleaseCleanupThrowsStep]_vars

\* the cleanup() of a releaseFile threw, the call returned and the entry of
\* the file is gone
ReleaseCleanupThrowsWitness ==
  /\ lastCall.op = "releaseFile"
  /\ lastCall.kind = "teardown"
  /\ lastCall.thrown = 1
  /\ ~lastCall.threw
  /\ files[lastCall.ret].cleanups = 1
  /\ ~Has(cache, files[lastCall.ret].cacheKey)

\* C18 (teardown failure in clearCache): whichever cached files have a
\* cleanup() that throws, clearCache invokes cleanup() once on the file of
\* every cached entry, returns normally and leaves the cache empty.
ClearCleanupThrowsStep ==
  \A throwing \in SUBSET (DOMAIN cache) :
    (lastCall'.op = "clearCache" /\ CallClearCache(throwing))
    => /\ lastCall'.thrown = Cardinality(throwing)
       /\ ~lastCall'.threw
       /\ cache' = EmptyMap
       /\ \A f \in DOMAIN files :
            files'[f].cleanups =
              IF \E k \in DOMAIN cache : cache[k].file = f
              THEN files[f].cleanups + 1 ELSE files[f].cleanups

ClearCleanupThrows == [][ClearCleanupThrowsStep]_vars

\* clearCache found two entries, the cleanup() of one of them threw, the call
\* returned, both files are cleaned up and the cache is empty
ClearCleanupThrowsWitness ==
  /\ lastCall.op = "clearCache"
  /\ lastCall.cleaned = 2
  /\ lastCall.thrown = 1
  /\ ~lastCall.threw
  /\ cache = EmptyMap
  /\ Cardinality({f \in DOMAIN files : files[f].cleanups = 1}) = 2

\* what a loadFile miss does whatever throws: one constructor call, for the
\* key; the key registered in the pending loads with the new signal, which is
\* the one returned; the return comes before any Load or LoadError, with no
\* cache entry; and without a throw the signal is {null, loading}
MissPath(params, throwAt) ==
  LET key == getCacheKey(params)
      n == Len(files) + 1
  IN /\ Len(files') = n
     /\ \A f \in DOMAIN files : files'[f] = files[f]
     /\ files'[n].cacheKey = key
     /\ Has(pendingLoads', key)
     /\ pendingLoads'[key].stateSignal = n
     /\ lastCall'.ret = n
     /\ Len(signals') = n
     /\ files'[n].fired = "none"
     /\ cache' = cache
     /\ throwAt = "none" => signals'[n] = [riveFile |-> 0, status |-> "loading"]

\* the number of init() calls after a miss
InitsAfterMiss(throwAt) == IF throwAt = "ctor" THEN 0 ELSE 1

\* C19 as stated (miss path): a loadFile whose key is neither cached nor
\* pending makes exactly one constructor call and one init() call, registers
\* a pending load and returns without waiting for the load; when nothing
\* throws, the returned signal is {null, loading}.
MissPathOneInit ==
  [][\A params \in CallParams, throwAt \in ThrowPoints :
       LET key == getCacheKey(params)
       IN (/\ ~Has(cache, key)
           /\ ~Has(pendingLoads, key)
           /\ lastCall'.op = "loadFile"
           /\ CallLoadFile(params, throwAt))
          => /\ MissPath(params, throwAt)
             /\ files'[Len(files')].inits = 1]_vars

\* C19 (miss path), amended: as above, but init() is called once when the
\* constructor returns and not at all when the constructor throws.
MissPathInit ==
  [][\A params \in CallParams, throwAt \in ThrowPoints :
       LET key == getCacheKey(params)
       IN (/\ ~Has(cache, key)
           /\ ~Has(pendingLoads, key)
           /\ lastCall'.op = "loadFile"
           /\ CallLoadFile(params, throwAt))
          => /\ MissPath(params, throwAt)
             /\ files'[Len(files')].inits = InitsAfterMiss(throwAt)]_vars

\* the last call was a miss: its file is constructed and initialised once,
\* its key is pending and the signal it returned is loading
MissPathWitness ==
  /\ lastCall.op = "loadFile"
  /\ lastCall.kind = "miss"
  /\ files[lastCall.ret].constructed
  /\ files[lastCall.ret].inits = 1
  /\ files[lastCall.ret].fired = "none"
  /\ signals[lastCall.ret] = [riveFile |-> 0, status |-> "loading"]
  /\ Has(pendingLoads, files[lastCall.ret].cacheKey)

\* C20 (success path): when the Load of a file fires, getInstance() is
\* invoked on it for the first and only time, its signal becomes
\* {file, success}, its key leaves the pending loads, and the cache gains the
\* entry of this file with this signal and refCount 1, whatever calls joined
\* the load while it was pending; no other entry changes.
SuccessPathStep ==
  \A f \in 1..MaxFiles :
    FireLoad(f)
    => LET key == files[f].cacheKey
       IN /\ files[f].getInstances = 0
          /\ files'[f].getInstances = 1
          /\ signals'[f] = [riveFile |-> f, status |-> "success"]
          /\ Has(pendingLoads, key)
          /\ ~Has(pendingLoads', key)
          /\ ~Has(cache, key)
          /\ cache' = Put(cache, key, [file |-> f, state |-> f, refCount |-> 1])

SuccessPath == [][SuccessPathStep]_vars

\* the last call joined a pending load, whose Load then fired: the entry has
\* refCount 1 and getInstance() was invoked once
SuccessPathWitness ==
  /\ lastCall.op = "loadFile"
  /\ lastCall.kind = "join"
  /\ files[lastCall.ret].fired = "load"
  /\ files[lastCall.ret].getInstances = 1
  /\ Has(cache, files[lastCall.ret].cacheKey)
  /\ cache[files[lastCall.ret].cacheKey].state = lastCall.ret
  /\ cache[files[lastCall.ret].cacheKey].refCount = 1

\* C21 (refCount at least 1): every entry in the cache has refCount >= 1.
RefCountPositive == \A k \in DOMAIN cache : cache[k].refCount >= 1

\* an entry that counted two callers was released once and is still cached,
\* with refCount 1
RefCountPositiveWitness ==
  /\ lastCall.op = "releaseFile"
  /\ lastCall.kind = "decrement"
  /\ \E k \in DOMAIN cache :
       cache[k].state = lastCall.ret /\ cache[k].refCount = 1

\* the key is in an episode: cached, or pending with a load that can settle
InEpisode(key) ==
  \/ Has(cache, key)
  \/ Has(pendingLoads, key) /\ Unsettled(pendingLoads[key].stateSignal)

\* C22 (one state record per episode): the signal of a pending or cached key
\* is the one created by the miss that constructed the key's last file; every
\* loadFile call made while the key is in an episode returns that signal and
\* creates none; no step replaces the signal of a key that stays pending or
\* cached, or that goes from pending to cached, and no signal is ever dropped;
\* Load and LoadError set the status on that same signal and on no other.
OneRecordState ==
  /\ \A k \in DOMAIN cache : cache[k].state = LastFileOf(k)
  /\ \A k \in DOMAIN pendingLoads : pendingLoads[k].stateSignal = LastFileOf(k)

OneRecordStep ==
  /\ \A params \in CallParams :
       LET key == getCacheKey(params)
       IN InEpisode(key) => \A throwAt \in ThrowPoints :
            (lastCall'.op = "loadFile" /\ CallLoadFile(params, throwAt))
            => /\ lastCall'.ret = LastFileOf(key)
               /\ signals' = signals
  /\ Len(signals') >= Len(signals)
  /\ \A k \in DOMAIN cache' :
       /\ Has(cache, k) => cache'[k].state = cache[k].state
       /\ Has(pendingLoads, k) => cache'[k].state = pendingLoads[k].stateSignal
  /\ \A k \in DOMAIN pendingLoads' :
       Has(pendingLoads, k) =>
         pendingLoads'[k].stateSignal = pendingLoads[k].stateSignal
  /\ \A f \in 1..MaxFiles :
       /\ FireLoad(f) =>
            signals' = [signals EXCEPT
                          ![f] = [riveFile |-> f, status |-> "success"]]
       /\ FireLoadError(f) =>
            signals' = [signals EXCEPT
                          ![f] = [riveFile |-> 0, status |-> "failed"]]

OneRecord == []OneRecordState /\ [][OneRecordStep]_vars

\* the signal the last call got from a miss, while loading, now shows success
\* and is the signal of the key's cache entry
OneRecordWitness ==
  /\ lastCall.op = "loadFile"
  /\ lastCall.kind = "miss"
  /\ signals[lastCall.ret].status = "success"
  /\ Has(cache, files[lastCall.ret].cacheKey)
  /\ cache[files[lastCall.ret].cacheKey].state = lastCall.ret

\* C23 (a cached record is a success): the signal of every cache entry has
\* status success and holds the entry's own file; the signal returned by a
\* cache hit has status success.
CachedIsSuccess ==
  /\ \A k \in DOMAIN cache :
       signals[cache[k].state] =
         [riveFile |-> cache[k].file, status |-> "success"]
  /\ lastCall.kind = "hit" =>
       signals[lastCall.ret].status \notin {"loading", "failed"}

\* the last call hit an entry that is still cached; the signal it returned
\* shows success and the entry's file
CachedIsSuccessWitness ==
  /\ lastCall.kind = "hit"
  /\ \E k \in DOMAIN cache :
       /\ cache[k].state = lastCall.ret
       /\ signals[lastCall.ret].status = "success"
       /\ signals[lastCall.ret].riveFile = cache[k].file

\* where a key is: in the cache, in the pending loads, in both or in neither
Situation(key) ==
  IF Has(cache, key)
  THEN IF Has(pendingLoads, key) THEN "both" ELSE "cached"
  ELSE IF Has(pendingLoads, key) THEN "pending" ELSE "absent"

\* C24 (per-key lifecycle): in every step every key stays where it is, or
\* goes from absent to pending by a loadFile miss for it, from pending to
\* cached by the Load of its file, from pending to absent by the LoadError of
\* its file, or from cached to absent by a releaseFile for it or a clearCache.
LifecycleStep ==
  \A k \in DOMAIN cache \cup DOMAIN pendingLoads
             \cup DOMAIN cache' \cup DOMAIN pendingLoads' :
    LET from == Situation(k)
        to == Situation(k)'
    IN \/ from = to
       \/ /\ from = "absent" /\ to = "pending"
          /\ \E params \in CallParams, throwAt \in ThrowPoints :
               /\ getCacheKey(params) = k
               /\ CallLoadFile(params, throwAt)
               /\ lastCall'.kind = "miss"
       \/ /\ from = "pending" /\ to = "cached"
          /\ \E f \in DOMAIN files : files[f].cacheKey = k /\ FireLoad(f)
       \/ /\ from = "pending" /\ to = "absent"
          /\ \E f \in DOMAIN files : files[f].cacheKey = k /\ FireLoadError(f)
       \/ /\ from = "cached" /\ to = "absent"
          /\ \/ \E params \in CallParams, cleanupThrows \in BOOLEAN :
                  /\ getCacheKey(params) = k
                  /\ cache[k].refCount = 1
                  /\ CallReleaseFile(params, cleanupThrows)
             \/ \E throwing \in SUBSET (DOMAIN cache) : CallClearCache(throwing)

Lifecycle == [][LifecycleStep]_vars

\* one key went from absent to pending to cached and back to absent, and
\* another from pending back to absent
LifecycleWitness ==
  \E e, f \in DOMAIN files :
    /\ files[e].fired = "load"
    /\ files[e].cleanups = 1
    /\ Situation(files[e].cacheKey) = "absent"
    /\ files[f].fired = "loaderror"
    /\ Situation(files[f].cacheKey) = "absent"

\* the last file constructed for the key ended with a LoadError
FailedLast(key) ==
  /\ LastFileOf(key) # 0
  /\ files[LastFileOf(key)].fired = "loaderror"

\* after a LoadError the key is in neither map, and the signal of a file whose
\* LoadError fired is {null, failed}
AfterLoadError ==
  /\ \A params \in CallParams :
       FailedLast(getCacheKey(params)) =>
         Situation(getCacheKey(params)) = "absent"
  /\ \A f \in DOMAIN files :
       files[f].fired = "loaderror" =>
         signals[f] = [riveFile |-> 0, status |-> "failed"]

\* C25 as stated (retry after failure): after the LoadError of a key's file,
\* the next loadFile for the key is a miss that constructs a new file and
\* returns a new signal whose status is loading, and the signal of the failed
\* load stays {null, failed}.
RetryLoading ==
  /\ []AfterLoadError
  /\ [][\A params \in CallParams :
          LET key == getCacheKey(params)
          IN FailedLast(key) => \A throwAt \in ThrowPoints :
             (lastCall'.op = "loadFile" /\ CallLoadFile(params, throwAt))
             => /\ MissStep(key)
                /\ lastCall'.ret # LastFileOf(key)
                /\ Has(pendingLoads', key)
                /\ signals'[Len(signals')].status = "loading"]_vars

\* C25 (retry after failure), amended: as above, but the new signal is loading
\* when neither the constructor nor init() throws, and failed when one does.
Retry ==
  /\ []AfterLoadError
  /\ [][\A params \in CallParams :
          LET key == getCacheKey(params)
          IN FailedLast(key) => \A throwAt \in ThrowPoints :
             (lastCall'.op = "loadFile" /\ CallLoadFile(params, throwAt))
             => /\ MissStep(key)
                /\ lastCall'.ret # LastFileOf(key)
                /\ Has(pendingLoads', key)
                /\ signals'[Len(signals')].status
                     = StatusAfterMiss(throwAt)]_vars

\* the load of a key failed with a LoadError and the key was loaded again:
\* the new signal is loading and pending, the old one still {null, failed}
RetryWitness ==
  \E e, f \in DOMAIN files :
    /\ e < f
    /\ files[e].cacheKey = files[f].cacheKey
    /\ files[e].fired = "loaderror"
    /\ signals[e] = [riveFile |-> 0, status |-> "failed"]
    /\ signals[f] = [riveFile |-> 0, status |-> "loading"]
    /\ pendingLoads[files[f].cacheKey].stateSignal = f

\* C27 (degenerate parameters): a loadFile or releaseFile call whose src is
\* undefined or the empty string and which carries no buffer acts under the
\* key "unknown": loadFile returns a signal whose file was constructed for
\* "unknown" and, when that key is pending or cached, constructs nothing and
\* returns the signal of its episode; releaseFile addresses that episode.  A
\* call with a non-empty src and a buffer acts under "src:" + src and leaves
\* the buffer untagged.
DegenerateStep ==
  \A params \in ParamsSet :
    /\ (params.src \in {NoValue, ""} /\ params.buffer = NoBuffer) =>
         /\ (lastCall'.op = "loadFile" /\ AnyLoadFile(params))
            => /\ files'[lastCall'.ret].cacheKey = "unknown"
               /\ Situation("unknown") # "absent" =>
                    /\ files' = files
                    /\ lastCall'.kind \in {"join", "hit"}
                    /\ lastCall'.ret = EpisodeOf("unknown")
         /\ (lastCall'.op = "releaseFile" /\ AnyReleaseFile(params))
            => lastCall'.ret = EpisodeOf("unknown")
    /\ (params.src \notin {NoValue, ""} /\ params.buffer # NoBuffer) =>
         /\ (lastCall'.op = "loadFile" /\ AnyLoadFile(params))
            => /\ files'[lastCall'.ret].cacheKey = "src:" \o params.src
               /\ bufferIds' = bufferIds
         /\ (lastCall'.op = "releaseFile" /\ AnyReleaseFile(params))
            => /\ lastCall'.ret = EpisodeOf("src:" \o params.src)
               /\ bufferIds' = bufferIds

Degenerate == [][DegenerateStep]_vars

\* a second call without src and buffer got the signal of the "unknown"
\* episode, and a file was loaded under a src key while no buffer is tagged
DegenerateWitness ==
  /\ lastCall.op = "loadFile"
  /\ lastCall.kind \in {"join", "hit"}
  /\ files[lastCall.ret].cacheKey = "unknown"
  /\ \E f \in DOMAIN files : files[f].cacheKey = "src:a.riv"
  /\ \A b \in Buffers : bufferIds[b] = 0

\* C28 (status changes once): no signal has the status idle; a signal is
\* created loading, or failed when the constructor or init() of its file
\* threw; the status of a signal changes only from loading, and then to
\* success or failed; the signal of a file stays as it is when the file is
\* cleaned up.
StatusState ==
  \A e \in DOMAIN signals : signals[e].status \in {"loading", "success", "failed"}

StatusStep ==
  \A e \in DOMAIN signals' :
    IF e \in DOMAIN signals
    THEN /\ \/ signals'[e].status = signals[e].status
            \/ /\ signals[e].status = "loading"
               /\ signals'[e].status \in {"success", "failed"}
         /\ files'[e].cleanups # files[e].cleanups => signals'[e] = signals[e]
    ELSE \/ signals'[e].status = "loading"
         \/ signals'[e].status = "failed" /\ ~files'[e].handlers

StatusOnce == []StatusState /\ [][StatusStep]_vars

\* a file was cleaned up and its signal still shows success, and another
\* signal was failed from its creation
StatusOnceWitness ==
  /\ \E e \in DOMAIN files :
       files[e].cleanups = 1 /\ signals[e].status = "success"
  /\ \E e \in DOMAIN files :
       ~files[e].handlers /\ signals[e].status = "failed"

\* C29 (handle exactly on success): the riveFile of every signal is non-null
\* exactly when its status is success.
HandleIffSuccess ==
  \A e \in DOMAIN signals :
    (signals[e].riveFile # 0) <=> (signals[e].status = "success")

\* one signal shows success with its file, another failed with none
HandleIffSuccessWitness ==
  /\ \E e \in DOMAIN signals :
       signals[e].status = "success" /\ signals[e].riveFile = e
  /\ \E e \in DOMAIN signals :
       signals[e].status = "failed" /\ signals[e].riveFile = 0

\* C30 (cleanup once, after success only): cleanup() has been invoked at most
\* once on every file, and only on files whose Load has fired.
CleanupOnce ==
  \A f \in DOMAIN files :
    /\ files[f].cleanups <= 1
    /\ files[f].cleanups > 0 => files[f].fired = "load"

\* clearCache cleaned up a cached file while the file of a pending load, not
\* yet loaded, was left alone
CleanupOnceWitness ==
  /\ lastCall.op = "clearCache"
  /\ lastCall.cleaned >= 1
  /\ \E f \in DOMAIN files : files[f].cleanups = 1 /\ files[f].fired = "load"
  /\ \E k \in DOMAIN pendingLoads :
       /\ files[pendingLoads[k].promise].fired = "none"
       /\ files[pendingLoads[k].promise].cleanups = 0

\* the step of the program that is operation o
OpStep(o) ==
  CASE o.op = "loadFile" -> CoreLoadFile(o.params, o.throwAt)
    [] o.op = "releaseFile" ->
         \E cleanupThrows \in BOOLEAN : CoreReleaseFile(o.params, cleanupThrows)
    [] o.op = "Load" -> FireLoad(o.f)
    [] o.op = "LoadError" -> FireLoadError(o.f)

\* state S with the numbers i and j of two objects (a signal with its file
\* and promise) exchanged: objects are nameless, their number is only the
\* order of creation
Renumbered(S, i, j) ==
  LET sw(x) == IF x = i THEN j ELSE IF x = j THEN i ELSE x
  IN [S EXCEPT
        !.signals = [e \in DOMAIN S.signals |->
                       [S.signals[sw(e)] EXCEPT
                          !.riveFile = IF @ = 0 THEN 0 ELSE sw(@)]],
        !.files = [f \in DOMAIN S.files |-> S.files[sw(f)]],
        !.promises = [e \in DOMAIN S.promises |-> S.promises[sw(e)]],
        !.cache = [k \in DOMAIN S.cache |->
                     [S.cache[k] EXCEPT !.file = sw(@), !.state = sw(@)]],
        !.pendingLoads = [k \in DOMAIN S.pendingLoads |->
                            [stateSignal |-> sw(S.pendingLoads[k].stateSignal),
                             promise |-> sw(S.pendingLoads[k].promise)]]]

\* state S with the buffer ids p and q exchanged, on the buffers that carry
\* them and in the keys made of them: a caller presents a buffer, never its
\* id, which is only the order in which getCacheKey met the buffers
Retagged(S, p, q) ==
  LET sw(x) == IF x = p THEN q ELSE IF x = q THEN p ELSE x
      kp == "buffer:" \o ToString(p)
      kq == "buffer:" \o ToString(q)
      swk(k) == IF k = kp THEN kq ELSE IF k = kq THEN kp ELSE k
  IN [S EXCEPT
        !.bufferIds = [b \in DOMAIN S.bufferIds |-> sw(S.bufferIds[b])],
        !.files = [f \in DOMAIN S.files |->
                     [S.files[f] EXCEPT !.cacheKey = swk(@)]],
        !.cache = [k \in {swk(x) : x \in DOMAIN S.cache} |-> S.cache[swk(k)]],
        !.pendingLoads = [k \in {swk(x) : x \in DOMAIN S.pendingLoads} |->
                            S.pendingLoads[swk(k)]]]

\* A and B, both reached by two operations from state S, are the same state:
\* equal once the (at most two) objects created and the (at most two) buffer
\* ids given since S are taken in the same order
SameState(A, B, S) ==
  LET n == Len(S.files)
      c == S.bufferIdCounter
      R == IF Len(B.files) = n + 2 THEN Renumbered(B, n + 1, n + 2) ELSE B
  IN \/ A = B
     \/ A = R
     \/ /\ B.bufferIdCounter = c + 2
        /\ \/ A = Retagged(B, c + 1, c + 2)
           \/ A = Retagged(R, c + 1, c + 2)

\* o1 is not after o2 in a fixed order of the operations (calls by their
\* buffer, then handlers by their file): of two different operations at
\* least one is not after the other
NotAfter(o1, o2) ==
  \/ o1.f < o2.f
  \/ o1.f = o2.f /\ o1.params.buffer <= o2.params.buffer

\* every two operations of which each acts on another key than the other,
\* whichever of them runs first, give the same state in either order
Commutes(S, same(_, _, _)) ==
  \A o1 \in OpsIn(S) :
    LET S1 == Apply(S, o1)
        key1 == OpKey(S, o1)
    IN \A o2 \in OpsIn(S) :
         (NotAfter(o1, o2) /\ key1 # OpKey(S1, o2))
         => LET S2 == Apply(S, o2)
            IN OpKey(S, o2) # OpKey(S2, o1)
               => same(Apply(S1, o2), Apply(S2, o1), S)

\* a step that is operation o is the function Apply, and leaves every other
\* key where it is, with its entry, its pending load, its files (and their
\* cleanup counts) and its signals
IndependenceStep ==
  \A o \in OpsIn(Service) :
    OpStep(o)
    => LET key == OpKey(Service, o)
       IN /\ Service' = Apply(Service, o)
          /\ \A k \in (DOMAIN cache \cup DOMAIN pendingLoads
                         \cup DOMAIN cache' \cup DOMAIN pendingLoads') \ {key} :
               /\ Situation(k)' = Situation(k)
               /\ Has(cache, k) => cache'[k] = cache[k]
               /\ Has(pendingLoads, k) => pendingLoads'[k] = pendingLoads[k]
          /\ \A f \in DOMAIN files :
               files[f].cacheKey # key =>
                 files'[f] = files[f] /\ signals'[f] = signals[f]

NoOrphans ==
  /\ \A f \in DOMAIN files :
       (files[f].fired = "load" /\ files[f].cleanups = 0)
       => /\ Has(cache, files[f].cacheKey)
          /\ cache[files[f].cacheKey].file = f
  /\ \A f \in DOMAIN files :
       CanFire(f) => ~Has(cache, files[f].cacheKey)

\* a key was loaded, torn down and loaded again: the second file is the one
\* in the cache, the first has been cleaned up
NoOrphansWitness ==
  \E f, g \in DOMAIN files :
    /\ f # g
    /\ files[f].cacheKey = files[g].cacheKey
    /\ files[f].fired = "load" /\ files[f].cleanups = 1
    /\ files[g].fired = "load" /\ files[g].cleanups = 0
    /\ cache[files[g].cacheKey].file = g

\* ------------------------------------------------ C32: success means alive
\* C32 (a Success record refers to a live handle): while loadFile callers of a
\* key have not released (held) and the key has had one episode only, so that
\* they hold its signal, a signal with status success holds a file whose
\* cleanup() has not been invoked.
SuccessMeansAlive ==
  \A e \in DOMAIN signals :
    (/\ signals[e].status = "success"
     /\ Held(files[e].cacheKey) > 0
     /\ \A f \in DOMAIN files : files[f].cacheKey = files[e].cacheKey => f = e)
    => files[signals[e].riveFile].cleanups = 0

\* ============================================== the ElementObserver singleton
MaxEntries == 2                         \* entries in one onObserved delivery
Canvas == "canvas"                      \* the component's canvas element
Elements == {Canvas, "other"}
Callbacks == {"onIntersectionChange", "callback"}

\* a registerCallback that keeps the callback registered first
RegisteredFirst(element, callback) ==
  IF Has(elementsMap, element) THEN elementsMap ELSE Put(elementsMap, element, callback)

\* `this.elementsMap.set(element, callback)`
Registered(element, callback) == Put(elementsMap, element, callback)

\* a removeCallback that only stops observing the element
RemovedKept(element) == elementsMap

\* `this.elementsMap.delete(element)`
Removed(element) == Delete(elementsMap, element)

\* what onObserved does for the entries, in order: for each entry the
\* callback registered for its target is invoked, if there is one
RECURSIVE Invocations(_)
Invocations(entries) ==
  IF entries = <<>> THEN <<>>
  ELSE LET target == Head(entries)
       IN <<[target |-> target,
             callback |-> IF Has(elementsMap, target)
                          THEN elementsMap[target] ELSE "none"]>>
          \o Invocations(Tail(entries))

registerCallback(element, callback) ==
  /\ observing' = observing \cup {element}
  /\ elementsMap' = Registered(element, callback)
  /\ UNCHANGED <<invoked, serviceVars, canvasVars>>

removeCallback(element) ==
  /\ observing' = observing \ {element}
  /\ elementsMap' = Removed(element)
  /\ UNCHANGED <<invoked, serviceVars, canvasVars>>

\* the IntersectionObserver delivers entries; an entry queued before
\* unobserve may still be delivered
onObserved(entries) ==
  /\ invoked' = Invocations(entries)
  /\ UNCHANGED <<elementsMap, observing, serviceVars, canvasVars>>

EntryLists == UNION {[1..n -> Elements] : n \in 1..MaxEntries}

NextObserver ==
  \/ \E element \in Elements, callback \in Callbacks :
        registerCallback(element, callback)
  \/ \E element \in Elements : removeCallback(element)
  \/ \E entries \in EntryLists : onObserved(entries)

SpecObserver == Init /\ [][NextObserver]_vars

\* ================================================= the RiveCanvasComponent
MaxRives == 2                           \* Rive instances constructed
RiveFiles == {1}                        \* preloaded RiveFile objects
InputNames == {"src", "buffer", "riveFile"}

\* the values an input can be bound to
InputValues(name) ==
  CASE name = "src" -> SrcValues
    [] name = "buffer" -> {NoBuffer, 1}
    [] name = "riveFile" -> {0} \cup RiveFiles

\* `src || buffer || riveFile`
AnySource(in) ==
  Truthy(in.src) \/ in.buffer # NoBuffer \/ in.riveFile # 0

\* a configuration that carries every input that is set
ConfigOfAll(in) ==
  [riveFile |-> in.riveFile,
   src |-> IF Truthy(in.src) THEN in.src ELSE NoValue,
   buffer |-> in.buffer]

\* the source in the configuration handed to `new Rive`:
\* `if (riveFile) .. else if (src) .. else if (buffer) ..`
ConfigOf(in) ==
  [riveFile |-> in.riveFile,
   src |-> IF in.riveFile = 0 /\ Truthy(in.src) THEN in.src ELSE NoValue,
   buffer |-> IF in.riveFile = 0 /\ ~Truthy(in.src) THEN in.buffer ELSE NoBuffer]

\* `new Rive(config)`
NewRive(config) ==
  [config |-> config, cleanups |-> 0, loaded |-> FALSE, rendering |-> TRUE]

\* a cleanupRive whose cleanup() call is not wrapped in try/catch
CleanupRiveCatchesNothing == FALSE

\* `try { this.#rive.cleanup(); } catch (error) { console.warn(..) }`
CleanupRiveCatches == TRUE

\* the exception of cleanup() leaves cleanupRive
CleanupEscapes(cleanupThrows) == cleanupThrows /\ ~CleanupRiveCatches

\* `this.#rive.cleanup()` has been called, if there is an instance
AfterCleanup ==
  IF rive = 0 THEN rives ELSE [rives EXCEPT ![rive].cleanups = @ + 1]

\* a cleanupRive that leaves the signals as they are
cleanupRiveKeepsSignals(cleanupThrows) ==
  /\ rives' = AfterCleanup
  /\ IF CleanupEscapes(cleanupThrows)
     THEN UNCHANGED rive
     ELSE rive' = 0
  /\ UNCHANGED <<riveInstance, isLoaded, isPlaying, isPaused>>

cleanupRive(cleanupThrows) ==
  /\ rives' = AfterCleanup
  /\ IF CleanupEscapes(cleanupThrows)
     THEN UNCHANGED <<rive, riveInstance, isLoaded, isPlaying, isPaused>>
     ELSE /\ rive' = 0
          /\ riveInstance' = 0
          /\ isLoaded' = FALSE
          /\ isPlaying' = FALSE
          /\ isPaused' = FALSE

\* an error emitted as it was thrown
LoadErrorValueRaw == "Error"

\* `new RiveLoadError('Failed to load Rive animation', ..)`
LoadErrorValue == "RiveLoadError"

\* what a step of the component did
Event(op, emitted, value, threw) ==
  [op |-> op, emitted |-> emitted, value |-> value, threw |-> threw]

\* a loadAnimation that constructs the new instance and forgets the old one
loadAnimationNoCleanup(op, ctorThrows, cleanupThrows) ==
  /\ ~cleanupThrows
  /\ ctorThrows => AnySource(inputs)
  /\ IF ~AnySource(inputs) \/ ctorThrows
     THEN /\ UNCHANGED <<rives, rive, riveInstance, isLoaded, isPlaying, isPaused>>
          /\ lastEvent' =
               IF ctorThrows
               THEN Event(op, "loadError", LoadErrorValue, FALSE)
               ELSE Event(op, "none", "none", FALSE)
     ELSE /\ Len(rives) < MaxRives
          /\ rives' = Append(rives, NewRive(ConfigOf(inputs)))
          /\ rive' = Len(rives) + 1
          /\ riveInstance' = Len(rives) + 1
          /\ UNCHANGED <<isLoaded, isPlaying, isPaused>>
          /\ lastEvent' = Event(op, "riveReady", "Rive", FALSE)

\* loadAnimation, called by op: cleanupRive, then `new Rive(config)` unless no
\* input is set; ctorThrows: the constructor throws
loadAnimation(op, ctorThrows, cleanupThrows) ==
  /\ cleanupThrows => rive # 0
  /\ ctorThrows => AnySource(inputs) /\ ~CleanupEscapes(cleanupThrows)
  /\ IF CleanupEscapes(cleanupThrows) \/ ~AnySource(inputs) \/ ctorThrows
     THEN /\ cleanupRive(cleanupThrows)
          /\ lastEvent' =
               IF CleanupEscapes(cleanupThrows) \/ ctorThrows
               THEN Event(op, "loadError", LoadErrorValue, FALSE)
               ELSE Event(op, "none", "none", FALSE)
     ELSE /\ Len(rives) < MaxRives
          /\ rives' = Append(AfterCleanup, NewRive(ConfigOf(inputs)))
          /\ rive' = Len(rives) + 1
          /\ riveInstance' = Len(rives) + 1
          /\ isLoaded' = FALSE
          /\ isPlaying' = FALSE
          /\ isPaused' = FALSE
          /\ lastEvent' = Event(op, "riveReady", "Rive", FALSE)

\* what loadAnimation leaves alone
loadAnimationFrame ==
  UNCHANGED <<platformId, inputs, isPausedByIntersectionObserver,
              retestIntersectionTimeoutId, invoked, serviceVars>>

\* an input is bound to another value: the effect is scheduled
SetInput(name, value) ==
  /\ ~destroyed
  /\ inputs[name] # value
  /\ inputs' = [inputs EXCEPT ![name] = value]
  /\ effectPending' = TRUE
  /\ lastEvent' = Event("input", "none", "none", FALSE)
  /\ UNCHANGED <<platformId, isInitialized, rive, riveInstance, isLoaded,
                 isPlaying, isPaused, resizeObserver,
                 isPausedByIntersectionObserver, retestIntersectionTimeoutId,
                 rives, viewInit, destroyed, serviceVars, observerVars>>

\* `(src || buffer || riveFile) && isPlatformBrowser(..) && this.isInitialized`
EffectLoads == AnySource(inputs) /\ platformId /\ isInitialized

\* the effect of the constructor runs (once after construction, then after
\* every change of src, buffer or riveFile; never after destroy)
Effect(ctorThrows, cleanupThrows) ==
  /\ effectPending
  /\ ~destroyed
  /\ effectPending' = FALSE
  /\ IF EffectLoads
     THEN loadAnimation("effect", ctorThrows, cleanupThrows)
     ELSE /\ ~ctorThrows /\ ~cleanupThrows
          /\ lastEvent' = Event("effect", "none", "none", FALSE)
          /\ UNCHANGED <<rive, riveInstance, isLoaded, isPlaying, isPaused, rives>>
  /\ loadAnimationFrame
  /\ UNCHANGED <<isInitialized, resizeObserver, viewInit, destroyed,
                 elementsMap, observing>>

\* an ngAfterViewInit that does not ask for the platform
ViewInitAnywhere == TRUE

\* `if (isPlatformBrowser(this.#platformId))` in ngAfterViewInit
ViewInitLoads == platformId

ngAfterViewInit(ctorThrows, cleanupThrows) ==
  /\ ~viewInit
  /\ ~destroyed
  /\ viewInit' = TRUE
  /\ IF ViewInitLoads
     THEN /\ isInitialized' = TRUE
          /\ resizeObserver' = TRUE
          /\ IF inputs.shouldUseIntersectionObserver
             THEN /\ observing' = observing \cup {Canvas}
                  /\ elementsMap' = Registered(Canvas, "onIntersectionChange")
             ELSE UNCHANGED <<elementsMap, observing>>
          /\ loadAnimation("ngAfterViewInit", ctorThrows, cleanupThrows)
     ELSE /\ ~ctorThrows /\ ~cleanupThrows
          /\ lastEvent' = Event("ngAfterViewInit", "none", "none", FALSE)
          /\ UNCHANGED <<isInitialized, resizeObserver, elementsMap, observing,
                         rive, riveInstance, isLoaded, isPlaying, isPaused, rives>>
  /\ loadAnimationFrame
  /\ UNCHANGED <<effectPending, destroyed>>

\* the onDestroy callback: cleanupRive, disconnectResizeObserver,
\* disconnectIntersectionObserver
Destroy(cleanupThrows) ==
  /\ viewInit
  /\ ~destroyed
  /\ destroyed' = TRUE
  /\ cleanupThrows => rive # 0
  /\ cleanupRive(cleanupThrows)
  /\ lastEvent' = Event("destroy", "none", "none", CleanupEscapes(cleanupThrows))
  /\ IF CleanupEscapes(cleanupThrows)
     THEN UNCHANGED <<resizeObserver, retestIntersectionTimeoutId,
                      elementsMap, observing>>
     ELSE /\ resizeObserver' = FALSE
          /\ retestIntersectionTimeoutId' = "null"
          /\ IF inputs.shouldUseIntersectionObserver
             THEN /\ observing' = observing \ {Canvas}
                  /\ elementsMap' = Removed(Canvas)
             ELSE UNCHANGED <<elementsMap, observing>>
  /\ UNCHANGED <<platformId, inputs, isInitialized,
                 isPausedByIntersectionObserver, effectPending, viewInit,
                 invoked, serviceVars>>

\* what a callback of a Rive instance leaves alone
CallbackFrame ==
  UNCHANGED <<platformId, inputs, isInitialized, rive, riveInstance,
              resizeObserver, isPausedByIntersectionObserver,
              retestIntersectionTimeoutId, effectPending, viewInit, destroyed,
              serviceVars, observerVars>>

\* instance i calls config.onLoad
onLoad(i) ==
  /\ i \in DOMAIN rives
  /\ rives' = [rives EXCEPT ![i].loaded = TRUE]
  /\ isLoaded' = TRUE
  /\ lastEvent' = Event("onLoad", "loaded", "none", FALSE)
  /\ UNCHANGED <<isPlaying, isPaused>>
  /\ CallbackFrame

\* instance i calls config.onLoadError
onLoadError(i) ==
  /\ i \in DOMAIN rives
  /\ lastEvent' = Event("onLoadError", "loadError", LoadErrorValue, FALSE)
  /\ UNCHANGED <<rives, isLoaded, isPlaying, isPaused>>
  /\ CallbackFrame

\* an onPause that leaves isPlaying as it was
PausedFlagsOnly == [isPlaying |-> isPlaying, isPaused |-> TRUE]

\* the flags set by onPlay, onPause and onStop
PlayedFlags == [isPlaying |-> TRUE, isPaused |-> FALSE]
PausedFlags == [isPlaying |-> FALSE, isPaused |-> TRUE]
StoppedFlags == [isPlaying |-> FALSE, isPaused |-> FALSE]

\* instance i calls config.onPlay, config.onPause or config.onStop
Playback(i, op, flags) ==
  /\ i \in DOMAIN rives
  /\ isPlaying' = flags.isPlaying
  /\ isPaused' = flags.isPaused
  /\ lastEvent' = Event(op, "none", "none", FALSE)
  /\ UNCHANGED <<rives, isLoaded>>
  /\ CallbackFrame

onPlay(i) == Playback(i, "onPlay", PlayedFlags)

onPause(i) == Playback(i, "onPause", PausedFlags)

onStop(i) == Playback(i, "onStop", StoppedFlags)

\* instance i calls config.onStateChange or config.onRiveEvent
Forwarded(i, op, output) ==
  /\ i \in DOMAIN rives
  /\ lastEvent' = Event(op, output, "RiveEvent", FALSE)
  /\ UNCHANGED <<rives, isLoaded, isPlaying, isPaused>>
  /\ CallbackFrame

onStateChange(i) == Forwarded(i, "onStateChange", "stateChange")

onRiveEvent(i) == Forwarded(i, "onRiveEvent", "riveEvent")

\* the held instance after startRendering() / stopRendering()
Rendering(on) ==
  IF rive = 0 THEN rives ELSE [rives EXCEPT ![rive].rendering = on]

\* what the intersection callbacks leave alone
IntersectionFrame ==
  UNCHANGED <<platformId, inputs, isInitialized, rive, riveInstance, isLoaded,
              isPlaying, isPaused, resizeObserver, effectPending, viewInit,
              destroyed, elementsMap, observing, serviceVars>>


\* the ElementObserver delivers an entry for the canvas: onIntersectionChange
\* runs if it is registered
CanvasObserved(isIntersecting, widthZero) ==
  /\ invoked' = Invocations(<<Canvas>>)
  /\ lastEvent' = Event("onObserved", "none", "none", FALSE)
  /\ IF ~Has(elementsMap, Canvas)
     THEN UNCHANGED <<rives, isPausedByIntersectionObserver,
                      retestIntersectionTimeoutId>>
     ELSE IF isIntersecting
          THEN /\ rives' = Rendering(TRUE)
               /\ isPausedByIntersectionObserver' = FALSE
               /\ UNCHANGED retestIntersectionTimeoutId
          ELSE /\ rives' = Rendering(FALSE)
               /\ isPausedByIntersectionObserver' = TRUE
               /\ retestIntersectionTimeoutId' =
                    IF widthZero THEN "armed"
                    ELSE IF retestIntersectionTimeoutId = "armed" THEN "fired"
                    ELSE retestIntersectionTimeoutId
  /\ IntersectionFrame

\* the 10 ms timeout fires: retestIntersection
RetestIntersection(isIntersecting) ==
  /\ retestIntersectionTimeoutId = "armed"
  /\ retestIntersectionTimeoutId' = "fired"
  /\ lastEvent' = Event("retestIntersection", "none", "none", FALSE)
  /\ IF isPausedByIntersectionObserver /\ isIntersecting /\ rive # 0
     THEN /\ rives' = Rendering(TRUE)
          /\ isPausedByIntersectionObserver' = FALSE
     ELSE UNCHANGED <<rives, isPausedByIntersectionObserver>>
  /\ UNCHANGED invoked
  /\ IntersectionFrame

InitCanvas ==
  /\ ServiceInit
  /\ \E browser \in BOOLEAN : CanvasInit(browser, TRUE)
  /\ ObserverInit

NextCanvas ==
  \/ \E name \in InputNames : \E value \in InputValues(name) :
        SetInput(name, value)
  \/ \E ctorThrows, cleanupThrows \in BOOLEAN : Effect(ctorThrows, cleanupThrows)
  \/ \E ctorThrows, cleanupThrows \in BOOLEAN :
        ngAfterViewInit(ctorThrows, cleanupThrows)
  \/ \E cleanupThrows \in BOOLEAN : Destroy(cleanupThrows)
  \/ \E i \in 1..MaxRives : onLoad(i)
  \/ \E i \in 1..MaxRives : onLoadError(i)
  \/ \E i \in 1..MaxRives : onPlay(i)
  \/ \E i \in 1..MaxRives : onPause(i)
  \/ \E i \in 1..MaxRives : onStop(i)
  \/ \E i \in 1..MaxRives : onStateChange(i)
  \/ \E i \in 1..MaxRives : onRiveEvent(i)

SpecCanvas == InitCanvas /\ [][NextCanvas]_vars

\* the component with the visibility of its canvas: the lifecycle and the
\* callbacks of the ElementObserver and of the retest timeout
InitVisibility ==
  /\ ServiceInit
  /\ \E useObserver \in BOOLEAN : CanvasInit(TRUE, useObserver)
  /\ ObserverInit

NextVisibility ==
  \/ \E value \in InputValues("src") : SetInput("src", value)
  \/ Effect(FALSE, FALSE)
  \/ ngAfterViewInit(FALSE, FALSE)
  \/ Destroy(FALSE)
  \/ \E isIntersecting, widthZero \in BOOLEAN :
        CanvasObserved(isIntersecting, widthZero)
  \/ \E isIntersecting \in BOOLEAN : RetestIntersection(isIntersecting)

SpecVisibility == InitVisibility /\ [][NextVisibility]_vars

\* the types of the component's state
CanvasTypeOK ==
  /\ rive \in 0..Len(rives)
  /\ riveInstance \in 0..Len(rives)
  /\ Len(rives) <= MaxRives
  /\ retestIntersectionTimeoutId \in {"null", "armed", "fired"}

\* ============================================ claims about the component
\* instance i has not been cleaned up
Live(i) == rives[i].cleanups = 0

\* C33 (reload): cleanup() has been invoked at most once on every Rive
\* instance, and the instances it has not been invoked on are at most one, the
\* one the component holds; a change of src, buffer or riveFile schedules the
\* effect, and an effect that runs after view initialisation with an input set
\* invokes cleanup() on the instance held, exactly once, and then constructs
\* the new instance (unless the constructor throws).
ReloadState ==
  \A i \in DOMAIN rives :
    /\ rives[i].cleanups <= 1
    /\ Live(i) <=> i = rive

ReloadStep ==
  /\ \A name \in InputNames : \A value \in InputValues(name) :
       SetInput(name, value) => effectPending'
  /\ \A ctorThrows, cleanupThrows \in BOOLEAN :
       (isInitialized /\ AnySource(inputs) /\ Effect(ctorThrows, cleanupThrows))
       => /\ rive # 0 =>
               /\ rives'[rive].cleanups = rives[rive].cleanups + 1
               /\ rive' # rive
          /\ \A i \in DOMAIN rives : i # rive => rives'[i] = rives[i]
          /\ IF ctorThrows
             THEN rive' = 0 /\ Len(rives') = Len(rives)
             ELSE /\ Len(rives') = Len(rives) + 1
                  /\ rive' = Len(rives')
                  /\ rives'[Len(rives')].cleanups = 0

Reload == []ReloadState /\ [][ReloadStep]_vars

\* src changed after view initialisation and the effect reloaded: the first
\* instance has been cleaned up once and the second is held
ReloadWitness ==
  /\ lastEvent.op = "effect"
  /\ lastEvent.emitted = "riveReady"
  /\ Len(rives) = 2
  /\ rives[1].cleanups = 1
  /\ rives[1].config # rives[2].config
  /\ rive = 2 /\ Live(2)

\* C34 (destroy): the onDestroy callback invokes cleanup() on the instance
\* held, lets no exception out even when cleanup() throws, and leaves
\* riveInstance null and isLoaded, isPlaying and isPaused false; once the
\* component is destroyed it holds no instance and constructs none.
DestroyedState == destroyed => (rive = 0 /\ riveInstance = 0)

DestroyStep ==
  /\ \A cleanupThrows \in BOOLEAN :
       Destroy(cleanupThrows)
       => /\ rive # 0 => rives'[rive].cleanups = rives[rive].cleanups + 1
          /\ ~lastEvent'.threw
          /\ riveInstance' = 0
          /\ ~isLoaded' /\ ~isPlaying' /\ ~isPaused'
  /\ destroyed => Len(rives') = Len(rives)

DestroyCleansUp == []DestroyedState /\ [][DestroyStep]_vars

\* the component was destroyed while it held a loaded instance: the instance
\* has been cleaned up and the flags are down
DestroyCleansUpWitness ==
  /\ lastEvent.op = "destroy"
  /\ Len(rives) = 1
  /\ rives[1].loaded
  /\ rives[1].cleanups = 1
  /\ ~isLoaded /\ riveInstance = 0

\* C35 (source priority): every Rive instance was constructed with exactly
\* one of riveFile, src and buffer; a step that constructs an instance has an
\* input set and hands over the riveFile if it is set, else the src if it is
\* set, else the buffer (so with no input set nothing is constructed).
OneSource(config) ==
  \/ config.riveFile # 0 /\ config.src = NoValue /\ config.buffer = NoBuffer
  \/ config.riveFile = 0 /\ Truthy(config.src) /\ config.buffer = NoBuffer
  \/ config.riveFile = 0 /\ config.src = NoValue /\ config.buffer # NoBuffer

SourcePriorityStep ==
  Len(rives') > Len(rives)
  => LET config == rives'[Len(rives')].config
     IN /\ AnySource(inputs)
        /\ IF inputs.riveFile # 0
           THEN config.riveFile = inputs.riveFile
           ELSE IF inputs.src \notin {NoValue, ""}
                THEN config.src = inputs.src
                ELSE config.buffer = inputs.buffer

SourcePriority ==
  /\ [](\A i \in DOMAIN rives : OneSource(rives[i].config))
  /\ [][SourcePriorityStep]_vars

\* all three inputs are set and the instance held was given the riveFile only
SourcePriorityWitness ==
  /\ inputs.riveFile # 0 /\ Truthy(inputs.src) /\ inputs.buffer # NoBuffer
  /\ lastEvent.emitted = "riveReady"
  /\ rive # 0
  /\ rives[rive].config =
       [riveFile |-> inputs.riveFile, src |-> NoValue, buffer |-> NoBuffer]

\* C36 (platform and timing guard): before ngAfterViewInit has run, and at any
\* time when the platform is not a browser, no Rive instance has been
\* constructed and no construction has been attempted.
PlatformGuard ==
  (~viewInit \/ ~platformId)
  => /\ rives = <<>>
     /\ lastEvent.emitted = "none"
     /\ ~isInitialized

\* not on a browser: the view is initialised, an input is set and the effect
\* has run, and nothing has been constructed
PlatformGuardWitness ==
  /\ ~platformId
  /\ viewInit
  /\ AnySource(inputs)
  /\ lastEvent.op = "effect"
  /\ ~effectPending
  /\ rives = <<>>

\* C37 (load failure): an onLoadError callback, and a loadAnimation whose
\* `new Rive` throws, each emit loadError with a RiveLoadError, let no
\* exception out and do not set isLoaded to true.
CanvasLoadFailureStep ==
  /\ \A i \in 1..MaxRives :
       onLoadError(i)
       => /\ lastEvent'.emitted = "loadError"
          /\ lastEvent'.value = "RiveLoadError"
          /\ ~lastEvent'.threw
          /\ isLoaded' => isLoaded
  /\ \A cleanupThrows \in BOOLEAN :
       (Effect(TRUE, cleanupThrows) \/ ngAfterViewInit(TRUE, cleanupThrows))
       => /\ lastEvent'.emitted = "loadError"
          /\ lastEvent'.value = "RiveLoadError"
          /\ ~lastEvent'.threw
          /\ ~isLoaded'
          /\ Len(rives') = Len(rives)

CanvasLoadFailure == [][CanvasLoadFailureStep]_vars

\* a reload whose constructor threw, after an instance that had loaded: the
\* error was emitted and isLoaded is false
CanvasLoadFailureWitness ==
  /\ lastEvent = Event("effect", "loadError", "RiveLoadError", FALSE)
  /\ Len(rives) = 1
  /\ rives[1].loaded /\ rives[1].cleanups = 1
  /\ rive = 0
  /\ ~isLoaded

\* C38 (loaded flag): isLoaded is true only if the component holds an
\* instance and that instance has called onLoad.
LoadedFlag == isLoaded => (rive # 0 /\ rives[rive].loaded)

\* C39 (playback flags): isPlaying and isPaused are never both true; onPlay
\* leaves (true, false), onPause (false, true), onStop (false, false), and a
\* step that cleans up an instance or destroys the component (false, false).
PlaybackStep ==
  /\ \A i \in 1..MaxRives :
       /\ onPlay(i) => (isPlaying' /\ ~isPaused')
       /\ onPause(i) => (~isPlaying' /\ isPaused')
       /\ onStop(i) => (~isPlaying' /\ ~isPaused')
  /\ (\E i \in DOMAIN rives : rives'[i].cleanups > rives[i].cleanups)
       => (~isPlaying' /\ ~isPaused')
  /\ (\E cleanupThrows \in BOOLEAN : Destroy(cleanupThrows))
       => (~isPlaying' /\ ~isPaused')

PlaybackFlags == [](~(isPlaying /\ isPaused)) /\ [][PlaybackStep]_vars

\* the instance held played and was then paused
PlaybackFlagsWitness ==
  /\ lastEvent.op = "onPause"
  /\ rive # 0 /\ rives[rive].loaded
  /\ isPaused /\ ~isPlaying

\* C40 (registry): registerCallback makes the callback the one registered for
\* the element, replacing an earlier one, and touches no other element;
\* removeCallback leaves the element without a callback; an element gets a
\* callback by registerCallback only; and onObserved invokes, for every entry,
\* the callback registered for its target and nothing when none is registered.
RegistryStep ==
  /\ \A element \in Elements, callback \in Callbacks :
       registerCallback(element, callback)
       => /\ elementsMap'[element] = callback
          /\ \A other \in Elements \ {element} :
               /\ Has(elementsMap', other) <=> Has(elementsMap, other)
               /\ Has(elementsMap, other) => elementsMap'[other] = elementsMap[other]
  /\ \A element \in Elements :
       removeCallback(element)
       => /\ ~Has(elementsMap', element)
          /\ \A other \in Elements \ {element} :
               /\ Has(elementsMap', other) <=> Has(elementsMap, other)
               /\ Has(elementsMap, other) => elementsMap'[other] = elementsMap[other]
  /\ \A element \in Elements :
       (Has(elementsMap', element) /\ ~Has(elementsMap, element))
       => \E callback \in Callbacks : registerCallback(element, callback)
  /\ \A entries \in EntryLists :
       onObserved(entries)
       => /\ Len(invoked') = Len(entries)
          /\ \A j \in 1..Len(entries) :
               /\ invoked'[j].target = entries[j]
               /\ invoked'[j].callback =
                    IF entries[j] \in DOMAIN elementsMap
                    THEN elementsMap[entries[j]] ELSE "none"

Registry ==
  /\ [](DOMAIN elementsMap \subseteq Elements)
  /\ [][RegistryStep]_vars

\* a delivery with an entry for each element, after the callback of the
\* canvas was removed and that of the other element replaced: nothing was
\* invoked for the canvas, the later callback for the other element
RegistryWitness ==
  /\ invoked = <<[target |-> Canvas, callback |-> "none"],
                 [target |-> "other", callback |-> "callback"]>>
  /\ Canvas \notin observing
  /\ DOMAIN elementsMap = {"other"}

====
